---- MODULE Spec2Model ----
(***************************************************************************)
(* Schedulr (src/app.py): the adaptive schedule generator and the test     *)
(* grading engine, over the SQLite tables they read and write.             *)
(*                                                                         *)
(* Text values (exam_date, suggested_study_time, submitted answers) are    *)
(* sequences of one-character strings; str comparison is by code point,    *)
(* as in Python.  A naive datetime is a record of its fields, at minute    *)
(* resolution; datetime arithmetic goes through the proleptic Gregorian    *)
(* day number, as datetime does.                                           *)
(***************************************************************************)
EXTENDS Integers, Sequences, FiniteSets, TLC

VARIABLES
    StudyUnits, Exams, Tests, Questions, Options, StudentProgress,  \* the tables
    StudySchedule,  \* the table of study sessions marked complete
    lastrowid,    \* the AUTOINCREMENT counters (sqlite_sequence)
    request,      \* the request in flight on the running thread, with its
                  \* local variables
    waiting,      \* the request in flight on the other thread
    response,     \* what the last finished request carried and what it answered
    seen          \* history: what the three SELECTs of the
                  \* generate_adaptive_schedule call in flight would have
                  \* returned at each instant since the call began

vars == <<StudyUnits, Exams, Tests, Questions, Options, StudentProgress,
          StudySchedule, lastrowid, request, waiting, response, seen>>

\* None / SQL NULL.  A missing row or record is None, a missing text is NoText,
\* a missing id is 0 (AUTOINCREMENT ids start at 1), a NULL difficulty_level
\* is "NULL".
None == [none |-> TRUE]

NoText == <<"None">>

NULL == "NULL"

(***************************************************************************)
(* Characters and strings                                                  *)
(***************************************************************************)
Digits == <<"0", "1", "2", "3", "4", "5", "6", "7", "8", "9">>

IsDigit(c) == \E i \in 1..10 : Digits[i] = c

DigitVal(c) == (CHOOSE i \in 1..10 : Digits[i] = c) - 1

\* Code points of the characters the model uses (Python compares str by code point).
Ord(c) ==
    CASE c = " " -> 32
      [] c = "%" -> 37
      [] c = "+" -> 43
      [] c = "-" -> 45
      [] IsDigit(c) -> 48 + DigitVal(c)
      [] c = ":" -> 58
      [] c = "A" -> 65
      [] c = "B" -> 66
      [] c = "T" -> 84
      [] c = "a" -> 97
      [] c = "b" -> 98
      [] c = "n" -> 110
      [] c = "o" -> 111
      [] c = "s" -> 115
      [] c = "x" -> 120

\* str < str
RECURSIVE StrLess(_, _)
StrLess(s, t) ==
    IF t = <<>> THEN FALSE
    ELSE IF s = <<>> THEN TRUE
    ELSE IF Ord(Head(s)) # Ord(Head(t)) THEN Ord(Head(s)) < Ord(Head(t))
    ELSE StrLess(Tail(s), Tail(t))

\* str.strip()
RECURSIVE LStrip(_)
LStrip(s) == IF s # <<>> /\ Head(s) = " " THEN LStrip(Tail(s)) ELSE s

RECURSIVE RStrip(_)
RStrip(s) ==
    IF s # <<>> /\ s[Len(s)] = " " THEN RStrip(SubSeq(s, 1, Len(s) - 1)) ELSE s

Strip(s) == LStrip(RStrip(s))

\* str.lower()
LowerChar(c) == CASE c = "A" -> "a" [] c = "B" -> "b" [] c = "T" -> "t" [] OTHER -> c

Lower(s) == [i \in 1..Len(s) |-> LowerChar(s[i])]

\* str.replace('T', ' ')
ReplaceT(s) == [i \in 1..Len(s) |-> IF s[i] = "T" THEN " " ELSE s[i]]

\* str(n) for an integer n >= 0
RECURSIVE Str(_)
Str(n) == IF n < 10 THEN <<Digits[n + 1]>> ELSE Str(n \div 10) \o <<Digits[(n % 10) + 1]>>

\* '%0wd' % n
RECURSIVE Pad(_, _)
Pad(n, w) == IF Len(Str(n)) >= w THEN Str(n) ELSE <<"0">> \o Pad(n, w - 1)

\* int(s) for a string of digits
RECURSIVE Num(_)
Num(s) == IF s = <<>> THEN 0 ELSE 10 * Num(SubSeq(s, 1, Len(s) - 1)) + DigitVal(s[Len(s)])

AllDigits(s) == \A i \in 1..Len(s) : IsDigit(s[i])

(***************************************************************************)
(* datetime                                                                *)
(***************************************************************************)
IsLeap(y) == (y % 4 = 0 /\ y % 100 # 0) \/ y % 400 = 0

DaysInMonth(y, m) ==
    IF m = 2 THEN (IF IsLeap(y) THEN 29 ELSE 28)
    ELSE IF m \in {4, 6, 9, 11} THEN 30 ELSE 31

\* Day number of a civil date (days since 1970-01-01).
DaysFromCivil(y, m, d) ==
    LET yy  == IF m <= 2 THEN y - 1 ELSE y
        era == yy \div 400
        yoe == yy - era * 400
        mp  == IF m > 2 THEN m - 3 ELSE m + 9
        doy == (153 * mp + 2) \div 5 + d - 1
        doe == yoe * 365 + yoe \div 4 - yoe \div 100 + doy
    IN  era * 146097 + doe - 719468

\* Civil date of a day number.
CivilFromDays(z) ==
    LET zz  == z + 719468
        era == zz \div 146097
        doe == zz - era * 146097
        yoe == (doe - doe \div 1460 + doe \div 36524 - doe \div 146096) \div 365
        doy == doe - (365 * yoe + yoe \div 4 - yoe \div 100)
        mp  == (5 * doy + 2) \div 153
        d   == doy - (153 * mp + 2) \div 5 + 1
        m   == IF mp < 10 THEN mp + 3 ELSE mp - 9
        y   == yoe + era * 400 + (IF m <= 2 THEN 1 ELSE 0)
    IN  [year |-> y, month |-> m, day |-> d]

\* datetime(year, month, day, hour, minute), naive unless tz is TRUE
DateTime(y, mo, d, h, mi) ==
    [year |-> y, month |-> mo, day |-> d, hour |-> h, minute |-> mi, tz |-> FALSE]

\* Minutes since 1970-01-01T00:00 of a datetime's fields.
ToMinutes(dt) ==
    DaysFromCivil(dt.year, dt.month, dt.day) * 1440 + dt.hour * 60 + dt.minute

FromMinutes(t) ==
    LET c == CivilFromDays(t \div 1440)
    IN  DateTime(c.year, c.month, c.day, (t % 1440) \div 60, t % 60)

\* dt + timedelta(days=d, hours=h)
PlusDelta(dt, d, h) == FromMinutes(ToMinutes(dt) + d * 1440 + h * 60)

\* (a - b).days: timedelta normalises to 0 <= seconds < 86400, so days is the floor
DeltaDays(a, b) == (ToMinutes(a) - ToMinutes(b)) \div 1440

DateChars(dt) ==
    Pad(dt.year, 4) \o <<"-">> \o Pad(dt.month, 2) \o <<"-">> \o Pad(dt.day, 2)

\* dt.strftime('%Y-%m-%dT%H:00')
StrftimeHour(dt) == DateChars(dt) \o <<"T">> \o Pad(dt.hour, 2) \o <<":", "0", "0">>

\* dt.strftime('%Y-%m-%dT09:00')
StrftimeNine(dt) == DateChars(dt) \o <<"T", "0", "9", ":", "0", "0">>

\* dt.strftime('%Y-%m-%dT%H:%M'), the text an <input type=datetime-local> submits
StrftimeMinute(dt) ==
    DateChars(dt) \o <<"T">> \o Pad(dt.hour, 2) \o <<":">> \o Pad(dt.minute, 2)

ValueError == [error |-> "ValueError"]

\* datetime.fromisoformat(s) on the forms YYYY-MM-DD, YYYY-MM-DD HH:MM and
\* YYYY-MM-DD HH:MM+HH:MM (an offset makes the datetime aware); anything else,
\* or a field out of range, raises ValueError.
ParseDate(s) ==
    IF /\ Len(s) = 10
       /\ AllDigits(SubSeq(s, 1, 4)) /\ s[5] = "-"
       /\ AllDigits(SubSeq(s, 6, 7)) /\ s[8] = "-"
       /\ AllDigits(SubSeq(s, 9, 10))
    THEN LET y == Num(SubSeq(s, 1, 4))
             m == Num(SubSeq(s, 6, 7))
             d == Num(SubSeq(s, 9, 10))
         IN  IF y >= 1 /\ m \in 1..12 /\ d >= 1 /\ d <= DaysInMonth(y, m)
             THEN [year |-> y, month |-> m, day |-> d]
             ELSE ValueError
    ELSE ValueError

ParseClock(s) ==
    IF /\ Len(s) = 5
       /\ AllDigits(SubSeq(s, 1, 2)) /\ s[3] = ":"
       /\ AllDigits(SubSeq(s, 4, 5))
    THEN LET h == Num(SubSeq(s, 1, 2))
             m == Num(SubSeq(s, 4, 5))
         IN  IF h <= 23 /\ m <= 59 THEN [hour |-> h, minute |-> m] ELSE ValueError
    ELSE ValueError

fromisoformat(s) ==
    LET date  == ParseDate(SubSeq(s, 1, 10))
        clock == ParseClock(SubSeq(s, 12, 16))
        off   == ParseClock(SubSeq(s, 18, 22))
    IN  IF Len(s) \notin {10, 16, 22} \/ date = ValueError THEN ValueError
        ELSE IF Len(s) = 10 THEN DateTime(date.year, date.month, date.day, 0, 0)
        ELSE IF s[11] # " " \/ clock = ValueError THEN ValueError
        ELSE IF Len(s) = 16
             THEN DateTime(date.year, date.month, date.day, clock.hour, clock.minute)
        ELSE IF s[17] \notin {"+", "-"} \/ off = ValueError THEN ValueError
        ELSE [DateTime(date.year, date.month, date.day, clock.hour, clock.minute)
                EXCEPT !.tz = TRUE]

(***************************************************************************)
(* Bounds of the model                                                     *)
(***************************************************************************)
\* questions of the longest test form: a score of exactly 70 needs ten
MaxQuestions == 10

\* rows that add_test and edit_test may insert into Questions
MaxQuestionRows == 4

\* rows ever inserted into Tests
MaxTests == 2

(***************************************************************************)
(* Users: the rows signup has created.  Users are not changed by any of    *)
(* the handlers modelled here.  User 5 is a student row without a mentor   *)
(* (mentor_id is nullable; student_dashboard guards for it).               *)
(***************************************************************************)
Users ==
    { [id |-> 1, role |-> "mentor",  mentor_id |-> 0],
      [id |-> 2, role |-> "mentor",  mentor_id |-> 0],
      [id |-> 3, role |-> "student", mentor_id |-> 1],
      [id |-> 4, role |-> "student", mentor_id |-> 2],
      [id |-> 5, role |-> "student", mentor_id |-> 0] }

\* SELECT * FROM Users WHERE id = ?  (a row or None)
get_user_by_id(user_id) ==
    IF \E u \in Users : u.id = user_id
    THEN CHOOSE u \in Users : u.id = user_id
    ELSE None

IsRole(user_id, role) ==
    get_user_by_id(user_id) # None /\ get_user_by_id(user_id).role = role

(***************************************************************************)
(* Queries                                                                 *)
(***************************************************************************)
\* UnitOwnedBy without "AND mentor_id = ?"
UnitOfAnyMentor(unit_id, mentor_id) == \E u \in StudyUnits : u.id = unit_id

\* SELECT * FROM StudyUnits WHERE id = ? AND mentor_id = ?
\* (mentor_id = NULL is never true in SQL)
UnitOwnedBy(unit_id, mentor_id) ==
    \E u \in StudyUnits : u.id = unit_id /\ mentor_id # 0 /\ u.mentor_id = mentor_id

\* ORDER BY id: the rows of a table as a list in ascending id order
RECURSIVE OrderById(_)
OrderById(rows) ==
    IF rows = {} THEN <<>>
    ELSE LET first == CHOOSE r \in rows : \A o \in rows : r.id <= o.id
         IN  <<first>> \o OrderById(rows \ {first})

\* ORDER BY subject of StudyUnits rows (BINARY collation); rows with equal
\* subject come in rowid order, the order of the table scan that feeds the sorter
RECURSIVE OrderBySubject(_)
OrderBySubject(rows) ==
    IF rows = {} THEN <<>>
    ELSE LET first == CHOOSE r \in rows :
                        \A o \in rows \ {r} :
                            \/ StrLess(r.subject, o.subject)
                            \/ (r.subject = o.subject /\ r.id < o.id)
         IN  <<first>> \o OrderBySubject(rows \ {first})

(***************************************************************************)
(* Scores.  test_score is correct / total * 100 as a float; the model      *)
(* keeps the exact quotient as a reduced fraction [num, den].  (For every  *)
(* total up to 400 the float compares with 50 and 70 as the exact quotient *)
(* does.)                                                                  *)
(***************************************************************************)
RECURSIVE Gcd(_, _)
Gcd(a, b) == IF b = 0 THEN a ELSE Gcd(b, a % b)

Fraction(n, d) == [num |-> n \div Gcd(n, d), den |-> d \div Gcd(n, d)]

\* score < k, for an integer k
ScoreLess(score, k) == score.num < k * score.den

\* f'{score:.0f}': the nearest integer, a tie going to the even one
FormatFixed0(score) ==
    LET q == score.num \div score.den
        r == score.num % score.den
    IN  Str(IF 2 * r < score.den THEN q
            ELSE IF 2 * r > score.den THEN q + 1
            ELSE IF q % 2 = 0 THEN q ELSE q + 1)

(***************************************************************************)
(* generate_adaptive_schedule                                              *)
(***************************************************************************)
\* Python truth value of a text value or None
Truthy(text) == text # NoText /\ text # <<>>

\* SuggestedTime with "days_until < 3" for "days_until <= 3"
SuggestedTimeStrict(exam_date, now) ==
    IF Truthy(exam_date)
    THEN LET ed == fromisoformat(ReplaceT(exam_date))
         IN  IF ed = ValueError THEN StrftimeNine(PlusDelta(now, 1, 0))
             ELSE IF ed.tz THEN StrftimeNine(PlusDelta(now, 1, 0))
             ELSE IF DeltaDays(ed, now) < 3 THEN StrftimeHour(PlusDelta(now, 0, 2))
             ELSE IF DeltaDays(ed, now) <= 7 THEN StrftimeNine(PlusDelta(now, 1, 0))
             ELSE StrftimeNine(PlusDelta(now, 2, 0))
    ELSE StrftimeNine(PlusDelta(now, 1, 0))

\* the suggested study time of one unit (the first if/else of the loop body)
SuggestedTime(exam_date, now) ==
    IF Truthy(exam_date)
    THEN LET ed == fromisoformat(ReplaceT(exam_date))
         IN  IF ed = ValueError THEN StrftimeNine(PlusDelta(now, 1, 0))
             \* aware - naive raises TypeError, caught like ValueError
             ELSE IF ed.tz THEN StrftimeNine(PlusDelta(now, 1, 0))
             ELSE IF DeltaDays(ed, now) <= 3 THEN StrftimeHour(PlusDelta(now, 0, 2))
             ELSE IF DeltaDays(ed, now) <= 7 THEN StrftimeNine(PlusDelta(now, 1, 0))
             ELSE StrftimeNine(PlusDelta(now, 2, 0))
    ELSE StrftimeNine(PlusDelta(now, 1, 0))

\* PriorityAndReason with the test-pending rule tried before the not-started rule
PriorityAndReasonPendingFirst(completed, test_taken, score, exam_date) ==
    IF test_taken = 0
    THEN [reason |-> <<"Completed, test pending">>,
          priority |-> IF Truthy(exam_date) THEN 9 ELSE 4]
    ELSE IF completed = 0
    THEN [reason |-> <<"Not started">>,
          priority |-> IF Truthy(exam_date) THEN 10 ELSE 5]
    ELSE IF score # None /\ ScoreLess(score, 70)
    THEN [reason |-> <<"Struggled (score: ", FormatFixed0(score), "%)">>,
          priority |-> IF Truthy(exam_date) THEN 8 ELSE 3]
    ELSE [reason |-> <<"Completed">>, priority |-> 1]

\* PriorityAndReason with the priorities of its first two rules exchanged
PriorityAndReasonExchanged(completed, test_taken, score, exam_date) ==
    IF completed = 0
    THEN [reason |-> <<"Not started">>,
          priority |-> IF Truthy(exam_date) THEN 9 ELSE 4]
    ELSE IF test_taken = 0
    THEN [reason |-> <<"Completed, test pending">>,
          priority |-> IF Truthy(exam_date) THEN 10 ELSE 5]
    ELSE IF score # None /\ ScoreLess(score, 70)
    THEN [reason |-> <<"Struggled (score: ", FormatFixed0(score), "%)">>,
          priority |-> IF Truthy(exam_date) THEN 8 ELSE 3]
    ELSE [reason |-> <<"Completed">>, priority |-> 1]

\* priority and reason of one unit (the second if/elif chain of the loop body)
PriorityAndReason(completed, test_taken, score, exam_date) ==
    IF completed = 0
    THEN [reason |-> <<"Not started">>,
          priority |-> IF Truthy(exam_date) THEN 10 ELSE 5]
    ELSE IF test_taken = 0
    THEN [reason |-> <<"Completed, test pending">>,
          priority |-> IF Truthy(exam_date) THEN 9 ELSE 4]
    ELSE IF score # None /\ ScoreLess(score, 70)
    THEN [reason |-> <<"Struggled (score: ", FormatFixed0(score), "%)">>,
          priority |-> IF Truthy(exam_date) THEN 8 ELSE 3]
    ELSE [reason |-> <<"Completed">>, priority |-> 1]

\* ReasonWithExam with the suffix appended inside the try block, after the
\* date was parsed and compared
ReasonWithExamParsed(reason, exam_date) ==
    IF Truthy(exam_date)
    THEN LET ed == fromisoformat(ReplaceT(exam_date))
         IN  IF ed = ValueError THEN reason
             ELSE IF ed.tz THEN reason
             ELSE reason \o <<" | Exam: ", SubSeq(exam_date, 1, IF Len(exam_date) < 10
                                                                 THEN Len(exam_date) ELSE 10)>>
    ELSE reason

\* reason += f' | Exam: {exam_date[:10]}'
ReasonWithExam(reason, exam_date) ==
    IF Truthy(exam_date)
    THEN reason \o <<" | Exam: ", SubSeq(exam_date, 1, IF Len(exam_date) < 10
                                                        THEN Len(exam_date) ELSE 10)>>
    ELSE reason

\* KeyLess with the key -priority alone
KeyLessByPriority(a, b) == -a.priority < -b.priority

\* the sort key (-priority, suggested_study_time): tuples compare item by item
KeyLess(a, b) ==
    \/ -a.priority < -b.priority
    \/ (a.priority = b.priority
        /\ StrLess(a.suggested_study_time, b.suggested_study_time))

\* list.sort(key=...) is stable: an item goes after the items whose key is not greater
RECURSIVE InsertSorted(_, _)
InsertSorted(x, sorted) ==
    IF sorted = <<>> THEN <<x>>
    ELSE IF KeyLess(x, Head(sorted)) THEN <<x>> \o sorted
    ELSE <<Head(sorted)>> \o InsertSorted(x, Tail(sorted))

RECURSIVE SortSuggestions(_)
SortSuggestions(list) ==
    IF list = <<>> THEN <<>>
    ELSE InsertSorted(list[Len(list)], SortSuggestions(SubSeq(list, 1, Len(list) - 1)))

\* SelectUnits without its WHERE clause
SelectUnitsOfAll(mentor_id) == OrderBySubject(StudyUnits)

\* units: SELECT ... FROM StudyUnits u WHERE u.mentor_id = ? ORDER BY u.subject, ...
SelectUnits(mentor_id) ==
    OrderBySubject({u \in StudyUnits : mentor_id # 0 /\ u.mentor_id = mentor_id})

\* SelectProgress joined with Tests on unit_id
SelectProgressOfTests(student_id) ==
    {p \in StudentProgress :
        p.student_id = student_id /\ \E t \in Tests : t.unit_id = p.unit_id}

\* SELECT ... FROM StudentProgress WHERE student_id = ?
SelectProgress(student_id) == {p \in StudentProgress : p.student_id = student_id}

\* SELECT unit_id, exam_date FROM Exams WHERE mentor_id = ?
SelectExams(mentor_id) == {e \in Exams : mentor_id # 0 /\ e.mentor_id = mentor_id}

\* progress.get(uid, {}), progress being the dict made of the rows read
ProgressOf(rows, uid) ==
    LET found == {p \in rows : p.unit_id = uid}
    IN  IF found = {} THEN None ELSE CHOOSE p \in found : TRUE

\* exams.get(uid), exams being the dict made of the rows read
ExamOf(rows, uid) ==
    LET found == {e \in rows : e.unit_id = uid}
    IN  IF found = {} THEN NoText ELSE (CHOOSE e \in found : TRUE).exam_date

\* progress.get(uid, {}) over SELECT ... FROM StudentProgress WHERE student_id = ?
ProgressGet(student_id, uid) == ProgressOf(SelectProgress(student_id), uid)

\* exams.get(uid) over SELECT unit_id, exam_date FROM Exams WHERE mentor_id = ?
ExamGet(mentor_id, uid) == ExamOf(SelectExams(mentor_id), uid)

\* the suggestion appended for unit u, from its progress row and exam date
SuggestionOf(u, prog, exam_date, now) ==
    LET completed  == IF prog = None THEN 0 ELSE prog.completed
        test_taken == IF prog = None THEN 0 ELSE prog.test_taken
        score      == IF prog = None THEN None ELSE prog.test_score
        pr         == PriorityAndReason(completed, test_taken, score, exam_date)
    IN  [unit |-> u,
         unit_id |-> u.id,
         suggested_study_time |-> SuggestedTime(exam_date, now),
         reason |-> ReasonWithExam(pr.reason, exam_date),
         exam_date |-> exam_date,
         priority |-> pr.priority,
         completed |-> completed,
         test_taken |-> test_taken]

\* the suggestion appended for unit u
Suggestion(u, student_id, mentor_id, now) ==
    SuggestionOf(u, ProgressGet(student_id, u.id), ExamGet(mentor_id, u.id), now)

\* the loop over units and the sort, on the rows the three SELECTs returned
ScheduleFrom(units, progress, exams, now) ==
    SortSuggestions([i \in 1..Len(units) |->
                        SuggestionOf(units[i], ProgressOf(progress, units[i].id),
                                     ExamOf(exams, units[i].id), now)])

\* the whole call, its three SELECTs answered from the same tables
generate_adaptive_schedule(student_id, mentor_id, now) ==
    LET units == SelectUnits(mentor_id)
    IN  SortSuggestions([i \in 1..Len(units) |->
                            Suggestion(units[i], student_id, mentor_id, now)])

\* what the three SELECTs return from the tables as they are
Reads(student_id, mentor_id) ==
    [units |-> SelectUnits(mentor_id), progress |-> SelectProgress(student_id),
     exams |-> SelectExams(mentor_id)]

\* The history variable seen after a step: while a generate_adaptive_schedule
\* call is in flight, the Reads of every instant since it began.
Scheduling(call) == call # None /\ call.pc \in {"progress", "exams"}

Recorded ==
    seen' = IF Scheduling(request')
            THEN (IF Scheduling(request) THEN seen ELSE {})
                 \cup {Reads(call[1], call[2])' :
                          call \in {<<request'.user_id, request'.mentor_id>>}}
            ELSE {}

(***************************************************************************)
(* Test forms: _parse_test_form and _save_test_questions                   *)
(***************************************************************************)
\* A submitted form is [question_count, questions], questions[i + 1] holding
\* the fields question_i_text, question_i_type, question_i_option_0.. (the
\* option texts), question_i_correct (an integer; 0 when it is not submitted)
\* and question_i_answer.  The fields of an index past the submitted ones are
\* missing.
MissingQuestion ==
    [text |-> NoText, type |-> "", options |-> <<>>, correct |-> 0, answer |-> NoText]

FormField(form, i, name) ==
    IF i + 1 <= Len(form.questions) THEN form.questions[i + 1][name]
    ELSE MissingQuestion[name]

\* (value or '').strip()
OrEmpty(value) == IF value = NoText THEN <<>> ELSE Strip(value)

\* the options read by the while loop: those before the first blank one
RECURSIVE LeadingOptions(_)
LeadingOptions(opts) ==
    IF opts = <<>> \/ OrEmpty(Head(opts)) = <<>> THEN <<>>
    ELSE <<OrEmpty(Head(opts))>> \o LeadingOptions(Tail(opts))

\* ParseQuestion without "if not text: continue"
ParseQuestionAnyText(form, i) ==
    LET text  == OrEmpty(FormField(form, i, "text"))
        qtype == IF FormField(form, i, "type") = "ShortAnswer"
                 THEN "ShortAnswer" ELSE "MCQ"
        opts  == LeadingOptions(FormField(form, i, "options"))
        idx   == FormField(form, i, "correct")
    IN  IF qtype = "MCQ"
        THEN IF opts = <<>> THEN None
             ELSE [text |-> text, type |-> qtype, options |-> opts,
                   correct |-> IF idx < 0 \/ idx >= Len(opts) THEN 0 ELSE idx,
                   answer |-> NoText]
        ELSE [text |-> text, type |-> qtype, options |-> <<>>, correct |-> 0,
              answer |-> OrEmpty(FormField(form, i, "answer"))]

\* ParseQuestion without "if correct_idx < 0 or correct_idx >= len(opts)"
ParseQuestionAnyIndex(form, i) ==
    LET text  == OrEmpty(FormField(form, i, "text"))
        qtype == IF FormField(form, i, "type") = "ShortAnswer"
                 THEN "ShortAnswer" ELSE "MCQ"
        opts  == LeadingOptions(FormField(form, i, "options"))
        idx   == FormField(form, i, "correct")
    IN  IF text = <<>> THEN None
        ELSE IF qtype = "MCQ"
        THEN IF opts = <<>> THEN None
             ELSE [text |-> text, type |-> qtype, options |-> opts,
                   correct |-> idx, answer |-> NoText]
        ELSE [text |-> text, type |-> qtype, options |-> <<>>, correct |-> 0,
              answer |-> OrEmpty(FormField(form, i, "answer"))]

\* the question the loop body appends for index i, or None when it continues
ParseQuestion(form, i) ==
    LET text  == OrEmpty(FormField(form, i, "text"))
        \* the type field is one of the words, not text: any other word is 'MCQ'
        qtype == IF FormField(form, i, "type") = "ShortAnswer"
                 THEN "ShortAnswer" ELSE "MCQ"
        opts  == LeadingOptions(FormField(form, i, "options"))
        idx   == FormField(form, i, "correct")
    IN  IF text = <<>> THEN None
        ELSE IF qtype = "MCQ"
        THEN IF opts = <<>> THEN None
             ELSE [text |-> text, type |-> qtype, options |-> opts,
                   correct |-> IF idx < 0 \/ idx >= Len(opts) THEN 0 ELSE idx,
                   answer |-> NoText]
        ELSE [text |-> text, type |-> qtype, options |-> <<>>, correct |-> 0,
              answer |-> OrEmpty(FormField(form, i, "answer"))]

RECURSIVE ParseQuestions(_, _)
ParseQuestions(form, i) ==
    IF i >= form.question_count THEN <<>>
    ELSE (IF ParseQuestion(form, i) = None THEN <<>> ELSE <<ParseQuestion(form, i)>>)
         \o ParseQuestions(form, i + 1)

\* the questions list returned; (None, None) is <<>>, which the callers'
\* "if not questions" does not tell from None
_parse_test_form(form) ==
    IF form.question_count <= 0 THEN <<>>
    ELSE ParseQuestions(form, 0)

\* the Options rows inserted for one MCQ question, ids from first_id on
NewOptions(qid, q, first_id) ==
    { [id |-> first_id + j, question_id |-> qid,
       is_correct |-> IF j = q.correct THEN 1 ELSE 0] : j \in 0..(Len(q.options) - 1) }

\* db is [Questions, Options, lastrowid]; the result is db after the inserts
RECURSIVE _save_test_questions(_, _, _)
_save_test_questions(db, test_id, questions) ==
    IF questions = <<>> THEN db
    ELSE LET q   == Head(questions)
             qid == db.lastrowid.Questions + 1
             row == [id |-> qid, test_id |-> test_id, type |-> q.type,
                     correct_answer |-> q.answer]
             n   == IF q.type = "MCQ" THEN Len(q.options) ELSE 0
         IN  _save_test_questions(
                 [Questions |-> db.Questions \cup {row},
                  Options   |-> db.Options \cup
                                (IF q.type = "MCQ"
                                 THEN NewOptions(qid, q, db.lastrowid.Options + 1)
                                 ELSE {}),
                  lastrowid |-> [db.lastrowid EXCEPT !.Questions = qid,
                                                     !.Options = @ + n]],
                 test_id, Tail(questions))

(***************************************************************************)
(* submit_test: grading                                                    *)
(***************************************************************************)
\* SelectTestOfMentor without the join: SELECT * FROM Tests WHERE id = ?
SelectTestById(test_id, mentor_id) ==
    LET rows == { t \in Tests : t.id = test_id }
    IN  IF rows = {} THEN None ELSE CHOOSE t \in rows : TRUE

\* SELECT t.*, u.id as unit_id FROM Tests t JOIN StudyUnits u ON t.unit_id = u.id
\* WHERE t.id = ? AND u.mentor_id = ?   (fetchone)
SelectTestOfMentor(test_id, mentor_id) ==
    LET rows == { t \in Tests :
                    /\ t.id = test_id
                    /\ \E u \in StudyUnits :
                          u.id = t.unit_id /\ mentor_id # 0 /\ u.mentor_id = mentor_id }
    IN  IF rows = {} THEN None ELSE CHOOSE t \in rows : TRUE

\* SELECT * FROM Questions WHERE test_id = ? ORDER BY id
SelectQuestions(test_id) == OrderById({q \in Questions : q.test_id = test_id})

\* SELECT id FROM Options WHERE question_id = ? AND is_correct = 1 ORDER BY id LIMIT 1
\* (row['id'] if row else None; None is 0 here, and as false as 0 is)
CorrectOptionId(qid) ==
    LET rows == {o \in Options : o.question_id = qid /\ o.is_correct = 1}
    IN  IF rows = {} THEN 0 ELSE (OrderById(rows))[1].id

\* request.form.get(f'q{qid}', '')
FormAnswer(answers, qid) == IF qid \in DOMAIN answers THEN answers[qid] ELSE <<>>

\* CountsCorrect without .lower() on the two sides
CountsCorrectNoFold(q, answers) ==
    LET ans == Strip(FormAnswer(answers, q.id))
    IN  IF q.type = "MCQ"
        THEN LET correct_opt_id == CorrectOptionId(q.id)
             IN  /\ correct_opt_id # 0
                 /\ ans = Str(correct_opt_id)
        ELSE ans = OrEmpty(q.correct_answer)

\* whether the loop body counts question q as correct
CountsCorrect(q, answers) ==
    LET ans == Strip(FormAnswer(answers, q.id))
    IN  IF q.type = "MCQ"
        THEN LET correct_opt_id == CorrectOptionId(q.id)
             IN  /\ correct_opt_id # 0
                 /\ ans = Str(correct_opt_id)
        ELSE Lower(ans) = Lower(OrEmpty(q.correct_answer))

\* correct, after the loop over questions
CountCorrect(questions, answers) ==
    Cardinality({i \in 1..Len(questions) : CountsCorrect(questions[i], answers)})

\* Score with the integer division correct // total
ScoreFloorDiv(correct, total) ==
    IF total > 0 THEN Fraction((correct \div total) * 100, 1) ELSE Fraction(0, 1)

\* score = (correct / total * 100) if total > 0 else 0
Score(correct, total) ==
    IF total > 0 THEN Fraction(correct * 100, total) ELSE Fraction(0, 1)

\* Difficulty with "score <= 70" for "score < 70"
DifficultyInclusive(score) ==
    IF ScoreLess(score, 50) THEN "hard"
    ELSE IF score.num <= 70 * score.den THEN "medium"
    ELSE "easy"

\* difficulty_level from score
Difficulty(score) ==
    IF ScoreLess(score, 50) THEN "hard"
    ELSE IF ScoreLess(score, 70) THEN "medium"
    ELSE "easy"

\* SELECT id FROM StudentProgress WHERE student_id = ? AND unit_id = ?  (a row or none)
ProgressExists(student_id, unit_id) ==
    \E p \in StudentProgress : p.student_id = student_id /\ p.unit_id = unit_id

\* INSERT INTO StudentProgress: UNIQUE(student_id, unit_id) refuses a second row
IntegrityError == {[error |-> "IntegrityError"]}

\* InsertProgress on a table without the UNIQUE constraint
InsertProgressUnchecked(row) == StudentProgress \cup {row}

InsertProgress(row) ==
    IF ProgressExists(row.student_id, row.unit_id)
    THEN IntegrityError
    ELSE StudentProgress \cup {row}

\* UpdateProgressScore without "difficulty_level = ?" in its SET
UpdateProgressScoreOnly(student_id, unit_id, score, difficulty_level) ==
    { IF p.student_id = student_id /\ p.unit_id = unit_id
      THEN [p EXCEPT !.test_taken = 1, !.test_score = score]
      ELSE p : p \in StudentProgress }

\* UPDATE StudentProgress SET test_taken = 1, test_score = ?, difficulty_level = ?
\* WHERE student_id = ? AND unit_id = ?
UpdateProgressScore(student_id, unit_id, score, difficulty_level) ==
    { IF p.student_id = student_id /\ p.unit_id = unit_id
      THEN [p EXCEPT !.test_taken = 1, !.test_score = score,
                     !.difficulty_level = difficulty_level]
      ELSE p : p \in StudentProgress }

\* UpsertScore with completed left out of the INSERT's columns (DEFAULT 0)
UpsertScoreNotCompleted(existing, student_id, unit_id, score, difficulty_level) ==
    IF existing
    THEN UpdateProgressScore(student_id, unit_id, score, difficulty_level)
    ELSE InsertProgress([student_id |-> student_id, unit_id |-> unit_id,
                         completed |-> 0, test_taken |-> 1, test_score |-> score,
                         difficulty_level |-> difficulty_level])

\* the write of submit_test on StudentProgress: an UPDATE when its SELECT had
\* found a row (existing), an INSERT otherwise
UpsertScore(existing, student_id, unit_id, score, difficulty_level) ==
    IF existing
    THEN UpdateProgressScore(student_id, unit_id, score, difficulty_level)
    ELSE InsertProgress([student_id |-> student_id, unit_id |-> unit_id,
                         completed |-> 1, test_taken |-> 1, test_score |-> score,
                         difficulty_level |-> difficulty_level])

\* UpsertCompleted as INSERT OR REPLACE: the row of the student and unit is
\* replaced by a new one
UpsertCompletedReplace(student_id, unit_id) ==
    {p \in StudentProgress : ~(p.student_id = student_id /\ p.unit_id = unit_id)}
        \cup {[student_id |-> student_id, unit_id |-> unit_id, completed |-> 1,
                test_taken |-> 0, test_score |-> None, difficulty_level |-> NULL]}

\* the read-then-write of mark_unit_complete on StudentProgress
UpsertCompleted(student_id, unit_id) ==
    IF ProgressExists(student_id, unit_id)
    THEN { IF p.student_id = student_id /\ p.unit_id = unit_id
           THEN [p EXCEPT !.completed = 1] ELSE p : p \in StudentProgress }
    ELSE InsertProgress([student_id |-> student_id, unit_id |-> unit_id,
                         completed |-> 1, test_taken |-> 0, test_score |-> None,
                         difficulty_level |-> NULL])

(***************************************************************************)
(* Request handlers.  Each handler runs on its own connection and commits  *)
(* once, at its end; response records what the last request carried and    *)
(* what it answered.                                                       *)
(***************************************************************************)
Answer(op, user_id, target, outcome) ==
    [op |-> op, user_id |-> user_id, target |-> target, outcome |-> outcome]

\* a redirect to the user's dashboard with a flashed message
Flash(op, user_id, outcome) == Answer(op, user_id, 0, outcome)

set_exam(user_id, unit_id, raw_date) ==
    LET exam_date == Strip(raw_date)
        outcome ==
            IF ~IsRole(user_id, "mentor") THEN "denied"
            ELSE IF exam_date = <<>> THEN "required"
            ELSE IF fromisoformat(ReplaceT(exam_date)) = ValueError THEN "invalid"
            ELSE IF ~UnitOwnedBy(unit_id, user_id) THEN "not_found"
            ELSE "ok"
    IN  /\ response' = Flash("set_exam", user_id, outcome)
        /\ Exams' =
              IF outcome # "ok" THEN Exams
              ELSE IF \E e \in Exams : e.unit_id = unit_id
              THEN { IF e.unit_id = unit_id /\ e.mentor_id = user_id
                     THEN [e EXCEPT !.exam_date = exam_date] ELSE e : e \in Exams }
              ELSE Exams \cup {[unit_id |-> unit_id, mentor_id |-> user_id,
                                exam_date |-> exam_date]}
        /\ UNCHANGED <<StudyUnits, Tests, Questions, Options, StudentProgress, lastrowid,
                       request>>
        /\ UNCHANGED <<StudySchedule, waiting>>
        /\ Recorded

delete_exam(user_id, unit_id) ==
    /\ IF ~IsRole(user_id, "mentor")
       THEN /\ response' = Flash("delete_exam", user_id, "denied")
            /\ UNCHANGED Exams
       ELSE /\ Exams' = {e \in Exams : ~(e.unit_id = unit_id /\ e.mentor_id = user_id)}
            /\ response' = Flash("delete_exam", user_id, "ok")
    /\ UNCHANGED <<StudyUnits, Tests, Questions, Options, StudentProgress, lastrowid,
                       request>>
    /\ UNCHANGED <<StudySchedule, waiting>>
    /\ Recorded

\* TestsOfUnit as the subquery answers once DELETE FROM Tests has run (the
\* tests deleted first, as the docstring of delete_unit has it)
TestsOfUnitDeletedFirst(unit_id) ==
    {t.id : t \in {x \in Tests : x.unit_id = unit_id /\ x.unit_id # unit_id}}

\* SELECT id FROM Tests WHERE unit_id = ?
TestsOfUnit(unit_id) == {t.id : t \in {x \in Tests : x.unit_id = unit_id}}

\* SELECT id FROM Questions WHERE test_id IN (...)
QuestionsOfTests(test_ids) == {q.id : q \in {x \in Questions : x.test_id \in test_ids}}

delete_unit(user_id, unit_id) ==
    LET outcome == IF ~IsRole(user_id, "mentor") THEN "denied"
                   ELSE IF ~UnitOwnedBy(unit_id, user_id) THEN "not_found"
                   ELSE "ok"
        tids == TestsOfUnit(unit_id)
        qids == QuestionsOfTests(tids)
    IN  /\ response' = Flash("delete_unit", user_id, outcome)
        /\ IF outcome # "ok"
           THEN UNCHANGED <<StudyUnits, Exams, Tests, Questions, Options, StudentProgress,
                            StudySchedule>>
           ELSE /\ Exams' = {e \in Exams : e.unit_id # unit_id}
                /\ StudySchedule' = {r \in StudySchedule : r.unit_id # unit_id}
                /\ Options' = {o \in Options : o.question_id \notin qids}
                /\ Questions' = {q \in Questions : q.test_id \notin tids}
                /\ Tests' = {t \in Tests : t.unit_id # unit_id}
                /\ StudentProgress' = {p \in StudentProgress : p.unit_id # unit_id}
                /\ StudyUnits' = {u \in StudyUnits :
                                    ~(u.id = unit_id /\ u.mentor_id = user_id)}
        /\ UNCHANGED <<lastrowid, request>>
        /\ UNCHANGED waiting
        /\ Recorded

\* suggested_time is the form's suggested_study_time
mark_schedule_complete(user_id, unit_id, suggested_time) ==
    LET user == get_user_by_id(user_id)
        outcome == IF ~IsRole(user_id, "student") THEN "denied"
                   ELSE IF user.mentor_id = 0 THEN "no_mentor"
                   ELSE IF ~UnitOwnedBy(unit_id, user.mentor_id) THEN "not_found"
                   ELSE "ok"
        mine(r) == r.student_id = user_id /\ r.unit_id = unit_id
    IN  /\ response' = Flash("mark_schedule_complete", user_id, outcome)
        /\ StudySchedule' =
              IF outcome # "ok" THEN StudySchedule
              ELSE IF \E r \in StudySchedule : mine(r)
              THEN { IF mine(r)
                     THEN [r EXCEPT !.completed = 1,
                                    !.suggested_study_time = suggested_time]
                     ELSE r : r \in StudySchedule }
              ELSE StudySchedule \cup
                     {[student_id |-> user_id, unit_id |-> unit_id,
                       suggested_study_time |-> suggested_time, completed |-> 1]}
        /\ UNCHANGED <<StudyUnits, Exams, Tests, Questions, Options, StudentProgress,
                       lastrowid, request, waiting>>
        /\ Recorded

mark_unit_complete(user_id, unit_id) ==
    LET user == get_user_by_id(user_id)
        outcome == IF ~IsRole(user_id, "student") THEN "denied"
                   ELSE IF ~UnitOwnedBy(unit_id, user.mentor_id) THEN "not_found"
                   ELSE IF UpsertCompleted(user_id, unit_id) = IntegrityError
                   THEN "error"
                   ELSE "ok"
    IN  /\ response' = Flash("mark_unit_complete", user_id, outcome)
        /\ StudentProgress' = IF outcome = "ok" THEN UpsertCompleted(user_id, unit_id)
                              ELSE StudentProgress
        /\ UNCHANGED <<StudyUnits, Exams, Tests, Questions, Options, lastrowid, request>>
        /\ UNCHANGED <<StudySchedule, waiting>>
        /\ Recorded

add_test(user_id, unit_id, form) ==
    LET questions == _parse_test_form(form)
        outcome == IF ~IsRole(user_id, "mentor") THEN "denied"
                   ELSE IF questions = <<>> THEN "invalid"
                   ELSE IF ~UnitOwnedBy(unit_id, user_id) THEN "not_found"
                   ELSE IF \E t \in Tests : t.unit_id = unit_id THEN "exists"
                   ELSE "ok"
        test_id == lastrowid.Tests + 1
        db == _save_test_questions(
                  [Questions |-> Questions, Options |-> Options,
                   lastrowid |-> [lastrowid EXCEPT !.Tests = test_id]],
                  test_id, questions)
    IN  /\ response' = Flash("add_test", user_id, outcome)
        /\ outcome = "ok" =>
              /\ lastrowid.Tests < MaxTests
              /\ lastrowid.Questions + Len(questions) <= MaxQuestionRows
        /\ IF outcome # "ok"
           THEN UNCHANGED <<Tests, Questions, Options, lastrowid>>
           ELSE /\ Tests' = Tests \cup {[id |-> test_id, mentor_id |-> user_id,
                                         unit_id |-> unit_id]}
                /\ Questions' = db.Questions
                /\ Options' = db.Options
                /\ lastrowid' = db.lastrowid
        /\ UNCHANGED <<StudyUnits, Exams, StudentProgress, request>>
        /\ UNCHANGED <<StudySchedule, waiting>>
        /\ Recorded

\* add_test in two steps, for the runs in which the commit of another request
\* falls between its SELECTs and its INSERT (the connection holds no
\* transaction before the INSERT INTO Tests):
\*   begin:  the checks up to SELECT id FROM Tests WHERE unit_id = ?
\*   insert: the INSERTs and the commit
add_test_begin(user_id, unit_id, form) ==
    LET questions == _parse_test_form(form)
        outcome == IF ~IsRole(user_id, "mentor") THEN "denied"
                   ELSE IF questions = <<>> THEN "invalid"
                   ELSE IF ~UnitOwnedBy(unit_id, user_id) THEN "not_found"
                   ELSE IF \E t \in Tests : t.unit_id = unit_id THEN "exists"
                   ELSE "ok"
    IN  /\ request = None
        /\ IF outcome # "ok"
           THEN /\ response' = Flash("add_test", user_id, outcome)
                /\ UNCHANGED request
           ELSE /\ request' = [pc |-> "insert", user_id |-> user_id,
                               unit_id |-> unit_id, questions |-> questions]
                /\ UNCHANGED response
        /\ UNCHANGED <<StudyUnits, Exams, Tests, Questions, Options, StudentProgress,
                       StudySchedule, lastrowid, waiting>>
        /\ Recorded

add_test_insert ==
    LET test_id == lastrowid.Tests + 1
        db == _save_test_questions(
                  [Questions |-> Questions, Options |-> Options,
                   lastrowid |-> [lastrowid EXCEPT !.Tests = test_id]],
                  test_id, request.questions)
    IN  /\ request # None
        /\ request.pc = "insert"
        /\ lastrowid.Tests < MaxTests
        /\ lastrowid.Questions + Len(request.questions) <= MaxQuestionRows
        /\ Tests' = Tests \cup {[id |-> test_id, mentor_id |-> request.user_id,
                                  unit_id |-> request.unit_id]}
        /\ Questions' = db.Questions
        /\ Options' = db.Options
        /\ lastrowid' = db.lastrowid
        /\ response' = Flash("add_test", request.user_id, "ok")
        /\ request' = None
        /\ UNCHANGED <<StudyUnits, Exams, StudentProgress, StudySchedule, waiting>>
        /\ Recorded

\* SELECT * FROM Tests WHERE id = ? AND mentor_id = ?
TestOwnedBy(test_id, mentor_id) ==
    \E t \in Tests : t.id = test_id /\ t.mentor_id = mentor_id

edit_test(user_id, test_id, form) ==
    LET questions == _parse_test_form(form)
        outcome == IF ~IsRole(user_id, "mentor") THEN "denied"
                   ELSE IF questions = <<>> THEN "invalid"
                   ELSE IF ~TestOwnedBy(test_id, user_id) THEN "not_found"
                   ELSE "ok"
        qids == QuestionsOfTests({test_id})
        db == _save_test_questions(
                  [Questions |-> {q \in Questions : q.test_id # test_id},
                   Options |-> {o \in Options : o.question_id \notin qids},
                   lastrowid |-> lastrowid],
                  test_id, questions)
    IN  /\ response' = Flash("edit_test", user_id, outcome)
        /\ outcome = "ok" => lastrowid.Questions + Len(questions) <= MaxQuestionRows
        /\ IF outcome # "ok"
           THEN UNCHANGED <<Questions, Options, lastrowid>>
           ELSE /\ Questions' = db.Questions
                /\ Options' = db.Options
                /\ lastrowid' = db.lastrowid
        /\ UNCHANGED <<StudyUnits, Exams, Tests, StudentProgress, request>>
        /\ UNCHANGED <<StudySchedule, waiting>>
        /\ Recorded

delete_test(user_id, test_id) ==
    LET outcome == IF ~IsRole(user_id, "mentor") THEN "denied"
                   ELSE IF ~TestOwnedBy(test_id, user_id) THEN "not_found"
                   ELSE "ok"
        qids == QuestionsOfTests({test_id})
    IN  /\ response' = Flash("delete_test", user_id, outcome)
        /\ IF outcome # "ok"
           THEN UNCHANGED <<Tests, Questions, Options>>
           ELSE /\ Options' = {o \in Options : o.question_id \notin qids}
                /\ Questions' = {q \in Questions : q.test_id # test_id}
                /\ Tests' = {t \in Tests : ~(t.id = test_id /\ t.mentor_id = user_id)}
        /\ UNCHANGED <<StudyUnits, Exams, StudentProgress, lastrowid, request>>
        /\ UNCHANGED <<StudySchedule, waiting>>
        /\ Recorded

(***************************************************************************)
(* submit_test.  Its statements run on a connection that holds no          *)
(* transaction before the first write, so the commit of another request    *)
(* can fall between them: the handler is four steps, its local variables   *)
(* kept in request.                                                        *)
(*   begin:     the user check and the SELECT of the test                  *)
(*   questions: the SELECT of the questions                                *)
(*   grade:     the loop over the questions (the list is not used after    *)
(*              it), the score, the difficulty and the SELECT on           *)
(*              StudentProgress                                            *)
(*   write:     the UPDATE or INSERT and the commit                        *)
(***************************************************************************)
submit_test_begin(user_id, test_id) ==
    LET user == get_user_by_id(user_id)
        test == IF IsRole(user_id, "student")
                THEN SelectTestOfMentor(test_id, user.mentor_id) ELSE None
    IN  /\ request = None
        /\ UNCHANGED <<StudyUnits, Exams, Tests, Questions, Options, StudentProgress,
                       lastrowid>>
        /\ IF ~IsRole(user_id, "student")
           THEN /\ response' = Answer("submit_test", user_id, test_id, "denied")
                /\ UNCHANGED request
           ELSE IF test = None
           THEN /\ response' = Answer("submit_test", user_id, test_id, "not_found")
                /\ UNCHANGED request
           ELSE /\ request' = [pc |-> "questions", user_id |-> user_id,
                               test_id |-> test_id, unit_id |-> test.unit_id,
                               questions |-> <<>>, answers |-> <<>>, correct |-> 0,
                               total |-> 0, score |-> Fraction(0, 1),
                               difficulty_level |-> NULL, existing |-> FALSE]
                /\ UNCHANGED response
        /\ UNCHANGED <<StudySchedule, waiting>>
        /\ Recorded

submit_test_questions ==
    /\ request # None
    /\ request.pc = "questions"
    /\ request' = [request EXCEPT !.pc = "grade",
                                  !.questions = SelectQuestions(request.test_id)]
    /\ UNCHANGED <<StudyUnits, Exams, Tests, Questions, Options, StudentProgress,
                   lastrowid, response>>
    /\ UNCHANGED <<StudySchedule, waiting>>
    /\ Recorded

submit_test_grade(answers) ==
    /\ request # None
    /\ request.pc = "grade"
    /\ LET correct == CountCorrect(request.questions, answers)
           total == Len(request.questions)
           score == Score(correct, total)
       IN  request' = [request EXCEPT
                          !.pc = "write", !.questions = <<>>, !.answers = answers,
                          !.correct = correct,
                          !.total = total, !.score = score,
                          !.difficulty_level = Difficulty(score),
                          !.existing = ProgressExists(request.user_id, request.unit_id)]
    /\ UNCHANGED <<StudyUnits, Exams, Tests, Questions, Options, StudentProgress,
                   lastrowid, response>>
    /\ UNCHANGED <<StudySchedule, waiting>>
    /\ Recorded

submit_test_write ==
    /\ request # None
    /\ request.pc = "write"
    /\ LET upsert == UpsertScore(request.existing, request.user_id, request.unit_id,
                                 request.score, request.difficulty_level)
       IN  /\ StudentProgress' = IF upsert = IntegrityError THEN StudentProgress
                                 ELSE upsert
           /\ response' = [op |-> "submit_test", user_id |-> request.user_id,
                           target |-> request.test_id,
                           outcome |-> IF upsert = IntegrityError THEN "error" ELSE "ok",
                           unit_id |-> request.unit_id, existing |-> request.existing,
                           correct |-> request.correct,
                           total |-> request.total, score |-> request.score,
                           difficulty_level |-> request.difficulty_level]
    /\ request' = None
    /\ UNCHANGED <<StudyUnits, Exams, Tests, Questions, Options, lastrowid>>
    /\ UNCHANGED <<StudySchedule, waiting>>
    /\ Recorded

\* student_dashboard at the instant now, as far as the suggested schedule goes
student_dashboard(user_id, now) ==
    LET user == get_user_by_id(user_id)
    IN  /\ response' =
              IF ~IsRole(user_id, "student")
              THEN Answer("student_dashboard", user_id, 0, "denied")
              ELSE [op |-> "student_dashboard", user_id |-> user_id,
                    target |-> user.mentor_id, outcome |-> "ok", now |-> now,
                    suggested_schedule |->
                        IF user.mentor_id = 0 THEN <<>>
                        ELSE generate_adaptive_schedule(user_id, user.mentor_id, now)]
        /\ UNCHANGED <<StudyUnits, Exams, Tests, Questions, Options, StudentProgress,
                       lastrowid, request>>
        /\ UNCHANGED <<StudySchedule, waiting>>
        /\ Recorded

\* student_dashboard with its call of generate_adaptive_schedule in three
\* steps, for the runs in which the commit of another request falls between
\* the SELECTs of the call (each SELECT is a read transaction of its own):
\*   begin:    the user checks and SELECT ... FROM StudyUnits
\*   progress: SELECT ... FROM StudentProgress
\*   exams:    SELECT ... FROM Exams, datetime.now(), the loop and the sort
student_dashboard_begin(user_id) ==
    LET user == get_user_by_id(user_id)
    IN  /\ request = None
        /\ IF ~IsRole(user_id, "student")
           THEN /\ response' = Answer("student_dashboard", user_id, 0, "denied")
                /\ UNCHANGED request
           ELSE IF user.mentor_id = 0
           THEN /\ response' = [op |-> "student_dashboard", user_id |-> user_id,
                                target |-> 0, outcome |-> "ok", now |-> None,
                                suggested_schedule |-> <<>>]
                /\ UNCHANGED request
           ELSE /\ request' = [pc |-> "progress", user_id |-> user_id,
                               mentor_id |-> user.mentor_id,
                               units |-> SelectUnits(user.mentor_id),
                               progress |-> {}]
                /\ UNCHANGED response
        /\ UNCHANGED <<StudyUnits, Exams, Tests, Questions, Options, StudentProgress,
                       StudySchedule, lastrowid, waiting>>
        /\ Recorded

generate_progress ==
    /\ request # None
    /\ request.pc = "progress"
    /\ request' = [request EXCEPT !.pc = "exams",
                                  !.progress = SelectProgress(request.user_id)]
    /\ UNCHANGED <<StudyUnits, Exams, Tests, Questions, Options, StudentProgress,
                   StudySchedule, lastrowid, waiting, response>>
    /\ Recorded

generate_exams(now) ==
    /\ request # None
    /\ request.pc = "exams"
    /\ response' = [op |-> "student_dashboard", user_id |-> request.user_id,
                    target |-> request.mentor_id, outcome |-> "ok", now |-> now,
                    suggested_schedule |->
                        ScheduleFrom(request.units, request.progress,
                                     SelectExams(request.mentor_id), now)]
    /\ request' = None
    /\ UNCHANGED <<StudyUnits, Exams, Tests, Questions, Options, StudentProgress,
                   StudySchedule, lastrowid, waiting>>
    /\ Recorded

\* The server answers each request on a thread of its own (app.run): the
\* running thread is descheduled between two of its statements and the other
\* one runs.
thread_switch ==
    /\ (request # None \/ waiting # None)
    /\ request' = waiting
    /\ waiting' = request
    /\ UNCHANGED <<StudyUnits, Exams, Tests, Questions, Options, StudentProgress,
                   StudySchedule, lastrowid, response>>
    /\ Recorded

(***************************************************************************)
(* The requests sent                                                       *)
(***************************************************************************)
McqQuestion(n, correct) ==
    [text |-> <<"x">>, type |-> "MCQ", options |-> [i \in 1..n |-> <<"a">>],
     correct |-> correct, answer |-> NoText]

ShortQuestion(answer) ==
    [text |-> <<"x">>, type |-> "ShortAnswer", options |-> <<>>, correct |-> 0,
     answer |-> answer]

FormMixed ==
    [question_count |-> 2,
     questions |-> <<McqQuestion(2, 1), ShortQuestion(<<"A", "b", " ">>)>>]

FormShort(n) ==
    [question_count |-> n, questions |-> [i \in 1..n |-> ShortQuestion(<<"A", "b">>)]]

FormBlank ==
    [question_count |-> 1,
     questions |-> <<[ShortQuestion(<<"a">>) EXCEPT !.text = <<" ">>]>>]

Forms == {FormMixed, FormShort(1), FormBlank}

\* What a student may type or tick for question q: the id of its first or of
\* its last option, plain, padded with blanks or with a leading zero; for a
\* short answer some spellings.
Choice(q, c) ==
    LET opts == OrderById({o \in Options : o.question_id = q.id})
    IN  IF q.type = "MCQ"
        THEN IF opts = <<>> THEN <<"1">>
             ELSE CASE c = 1 -> Str(opts[1].id)
                    [] c = 2 -> Str(opts[Len(opts)].id)
                    [] c = 3 -> <<" ">> \o Str(opts[Len(opts)].id) \o <<" ">>
                    [] c = 4 -> <<"0">> \o Str(opts[Len(opts)].id)
        ELSE CASE c = 1 -> <<"x">>
               [] c = 2 -> <<"a", "b">>
               [] c = 3 -> <<" ", "A", "B", " ">>
               [] c = 4 -> <<>>

StylePairs == { <<3, 4>>, <<1, 2>> }

\* The form posted for the questions qs: the first k answered in style
\* pair[1], the others in style pair[2]; the fields of every other question
\* in the table are filled in as well.
AnswerSheet(qs, k, pair) ==
    LET mine == {qs[i].id : i \in 1..Len(qs)}
        pos(qid) == CHOOSE i \in 1..Len(qs) : qs[i].id = qid
    IN  [qid \in mine \cup {q.id : q \in Questions} |->
            IF qid \in mine
            THEN Choice(qs[pos(qid)], IF pos(qid) <= k THEN pair[1] ELSE pair[2])
            ELSE Choice(CHOOSE q \in Questions : q.id = qid, 2)]

AnswerSheets(qs) ==
    { AnswerSheet(qs, k, pair) : k \in 0..Len(qs), pair \in StylePairs }

\* the forms that can be posted for the request in flight
RequestSheets ==
    IF request # None /\ request.pc = "grade" THEN AnswerSheets(request.questions) ELSE {}

Students == {u.id : u \in {x \in Users : x.role = "student"}}

(***************************************************************************)
(* Spec: grading while the mentor edits.  The database holds what signup,  *)
(* add_unit, add_test and mark_unit_complete have put there: unit 1 of     *)
(* mentor 1 with test 1 (FormMixed), and unit 2 of mentor 2, which student *)
(* 4 has marked complete.  Mentor 1 edits and deletes while the students   *)
(* mark units and submit.                                                  *)
(***************************************************************************)
EmptyTables ==
    [Questions |-> {}, Options |-> {},
     lastrowid |-> [StudyUnits |-> 0, Tests |-> 0, Questions |-> 0, Options |-> 0]]

\* the Progress row mark_unit_complete inserts
CompletedRow(student_id, unit_id) ==
    [student_id |-> student_id, unit_id |-> unit_id, completed |-> 1,
     test_taken |-> 0, test_score |-> None, difficulty_level |-> NULL]

\* the database after the units are added, form is saved as test 1 of unit 1
\* and student 4 has marked unit 2
InitWith(form) ==
    LET db == _save_test_questions(EmptyTables, 1, _parse_test_form(form))
    IN  /\ StudyUnits = { [id |-> 1, mentor_id |-> 1, subject |-> <<"b">>],
                          [id |-> 2, mentor_id |-> 2, subject |-> <<"a">>] }
        /\ Exams = {}
        /\ Tests = { [id |-> 1, mentor_id |-> 1, unit_id |-> 1] }
        /\ Questions = db.Questions
        /\ Options = db.Options
        /\ StudentProgress = { CompletedRow(4, 2) }
        /\ StudySchedule = {}
        /\ waiting = None
        /\ seen = {}
        /\ lastrowid = [db.lastrowid EXCEPT !.StudyUnits = 2, !.Tests = 1]
        /\ request = None
        /\ response = [op |-> "init_db", outcome |-> "ok"]

Init == InitWith(FormMixed)

UnitIds == 1..2

TestIds == 1..MaxTests

Submit ==
    \/ \E u \in {1, 3, 4}, i \in UnitIds : mark_unit_complete(u, i)
    \/ \E u \in {3, 4, 5, 6}, t \in TestIds : submit_test_begin(u, t)
    \/ submit_test_questions
    \/ \E a \in RequestSheets : submit_test_grade(a)
    \/ submit_test_write

Next ==
    \/ \E u \in {1, 3}, i \in UnitIds : delete_unit(u, i)
    \/ \E u \in {1, 3}, i \in UnitIds, f \in Forms : add_test(u, i, f)
    \/ \E u \in {1, 3}, t \in TestIds, f \in Forms : edit_test(u, t, f)
    \/ \E u \in {1, 3}, t \in TestIds : delete_test(u, t)
    \/ Submit

Spec == Init /\ [][Next]_vars

(***************************************************************************)
(* SpecScores: the scores of a long test.  Test 1 has MaxQuestions short   *)
(* answers; the students mark units and submit.                            *)
(***************************************************************************)
InitScores == InitWith(FormShort(MaxQuestions))

NextScores ==
    \/ \E t \in TestIds : delete_test(1, t)
    \/ Submit

SpecScores == InitScores /\ [][NextScores]_vars

(***************************************************************************)
(* SpecSchedule: the suggested schedule.  Mentor 1 has units 1 ("b", with  *)
(* test 1) and 2 ("a"); mentor 2 has unit 3, has set its exam, and student *)
(* 4 has marked it complete.  Mentor 1 sets and deletes exams, student 3   *)
(* marks units and submits test 1, and the dashboards are opened at the    *)
(* instants Nows.                                                          *)
(***************************************************************************)
\* datetime.now() when a dashboard is opened: late on 30 December, and late
\* on 27 February
Nows == { DateTime(2026, 12, 30, 22, 45), DateTime(2027, 2, 27, 23, 20) }

Offset == <<"+", "0", "0", ":", "0", "0">>

\* the exam_date fields submitted: the next morning, 3 days 23:15 and
\* 7 days 9:15 after the first instant, a date alone 8 days after the second,
\* a date with a UTC offset, a word and a blank
ExamDateInputs ==
    { StrftimeMinute(DateTime(2026, 12, 31, 9, 0)),
      <<" ">> \o StrftimeMinute(DateTime(2027, 1, 3, 22, 0)),
      StrftimeMinute(DateTime(2027, 1, 7, 8, 0)),
      DateChars(DateTime(2027, 3, 8, 0, 0)),
      StrftimeMinute(DateTime(2027, 3, 8, 10, 0)) \o Offset,
      <<"s", "o", "o", "n">>,
      <<" ">> }

FirstExamDate == StrftimeMinute(DateTime(2026, 12, 31, 9, 0))

\* an exam for unit 2 later than FirstExamDate and, at the first instant,
\* within the same three days
NearExamDate == StrftimeMinute(DateTime(2027, 1, 3, 22, 0))

LastExamDate == DateChars(DateTime(2027, 3, 8, 0, 0))

\* the set_exam requests sent: <<user_id, unit_id, exam_date>>
ExamRequests ==
    { <<1, 1, d>> : d \in ExamDateInputs }
    \cup { <<1, 2, FirstExamDate>>, <<1, 2, NearExamDate>>, <<1, 2, LastExamDate>>,
           <<1, 3, FirstExamDate>>, <<3, 1, FirstExamDate>> }

InitSchedule ==
    LET db == _save_test_questions(EmptyTables, 1, _parse_test_form(FormShort(1)))
    IN  /\ StudyUnits = { [id |-> 1, mentor_id |-> 1, subject |-> <<"b">>],
                          [id |-> 2, mentor_id |-> 1, subject |-> <<"a">>],
                          [id |-> 3, mentor_id |-> 2, subject |-> <<"a">>] }
        /\ Exams = { [unit_id |-> 3, mentor_id |-> 2, exam_date |-> FirstExamDate] }
        /\ Tests = { [id |-> 1, mentor_id |-> 1, unit_id |-> 1] }
        /\ Questions = db.Questions
        /\ Options = db.Options
        /\ StudentProgress = { CompletedRow(4, 3) }
        /\ StudySchedule = {}
        /\ waiting = None
        /\ seen = {}
        /\ lastrowid = [db.lastrowid EXCEPT !.StudyUnits = 3, !.Tests = 1]
        /\ request = None
        /\ response = [op |-> "init_db", outcome |-> "ok"]

NextSchedule ==
    \/ \E r \in ExamRequests : set_exam(r[1], r[2], r[3])
    \/ \E u \in {1, 3}, i \in 1..3 : delete_exam(u, i)
    \/ \E i \in 1..3 : mark_unit_complete(3, i)
    \/ submit_test_begin(3, 1)
    \/ submit_test_questions
    \/ \E a \in RequestSheets : submit_test_grade(a)
    \/ submit_test_write
    \/ \E u \in {1, 3, 4, 5}, now \in Nows : student_dashboard(u, now)

SpecSchedule == InitSchedule /\ [][NextSchedule]_vars

(***************************************************************************)
(* SpecCascade: units, their records and their owners.  Mentor 1 has unit  *)
(* 1 (with test 1) and unit 2, mentor 2 has unit 3 (with test 2); student  *)
(* 3 has marked unit 1 complete and student 4 unit 3.  The mentors set and *)
(* delete exams and delete units, and so try the students; the students    *)
(* mark units and study sessions complete.                                 *)
(***************************************************************************)
SuggestedTimeInput == StrftimeMinute(DateTime(2026, 12, 31, 9, 0))

InitCascade ==
    LET db1 == _save_test_questions(EmptyTables, 1, _parse_test_form(FormMixed))
        db2 == _save_test_questions(db1, 2, _parse_test_form(FormMixed))
    IN  /\ StudyUnits = { [id |-> 1, mentor_id |-> 1, subject |-> <<"b">>],
                          [id |-> 2, mentor_id |-> 1, subject |-> <<"a">>],
                          [id |-> 3, mentor_id |-> 2, subject |-> <<"a">>] }
        /\ Exams = {}
        /\ Tests = { [id |-> 1, mentor_id |-> 1, unit_id |-> 1],
                     [id |-> 2, mentor_id |-> 2, unit_id |-> 3] }
        /\ Questions = db2.Questions
        /\ Options = db2.Options
        /\ StudentProgress = { CompletedRow(3, 1), CompletedRow(4, 3) }
        /\ StudySchedule = {}
        /\ lastrowid = [db2.lastrowid EXCEPT !.StudyUnits = 3, !.Tests = 2]
        /\ request = None
        /\ waiting = None
        /\ response = [op |-> "init_db", outcome |-> "ok"]
        /\ seen = {}

\* the set_exam requests sent: <<user_id, unit_id, exam_date>>
CascadeExamRequests ==
    { <<u, i, FirstExamDate>> : u \in 1..3, i \in 1..3 }
    \cup { <<1, 1, LastExamDate>> }

NextCascade ==
    \/ \E r \in CascadeExamRequests : set_exam(r[1], r[2], r[3])
    \/ \E u \in 1..3, i \in 1..3 : delete_exam(u, i)
    \/ \E u \in 1..3, i \in 1..3 : delete_unit(u, i)
    \/ \E i \in 1..3 : mark_unit_complete(3, i)
    \/ \E u \in {1, 3, 4, 5}, i \in 1..3 :
          mark_schedule_complete(u, i, SuggestedTimeInput)

SpecCascade == InitCascade /\ [][NextCascade]_vars

(***************************************************************************)
(* SpecSnapshot: the schedule while others write.  The tables are those of *)
(* SpecSchedule; student 3 opens the dashboard, whose call of              *)
(* generate_adaptive_schedule runs in its three steps, while student 3     *)
(* marks units complete and mentor 1 sets and deletes exams and deletes    *)
(* units.  During one call the tables take up to MaxSeen contents.         *)
(***************************************************************************)
MaxSeen == 3

\* another request commits
Commit ==
    \/ \E i \in 1..2 : mark_unit_complete(3, i)
    \/ \E i \in 1..2 : set_exam(1, i, FirstExamDate)
    \/ \E i \in 1..2 : delete_exam(1, i)
    \/ \E i \in 1..2 : delete_unit(1, i)

NextSnapshot ==
    \/ \E u \in {1, 3, 5} : student_dashboard_begin(u)
    \/ generate_progress
    \/ \E now \in Nows : generate_exams(now)
    \/ Commit /\ Cardinality(seen') <= MaxSeen

SpecSnapshot == InitSchedule /\ [][NextSnapshot]_vars

(***************************************************************************)
(* SpecRace: two requests at a time.  Mentor 1 has unit 1, with no test    *)
(* yet; the mentor adds and deletes tests and student 3 submits them, each *)
(* of the two on up to two threads.                                        *)
(***************************************************************************)
InitRace ==
    /\ StudyUnits = { [id |-> 1, mentor_id |-> 1, subject |-> <<"b">>] }
    /\ Exams = {}
    /\ Tests = {}
    /\ Questions = {}
    /\ Options = {}
    /\ StudentProgress = {}
    /\ StudySchedule = {}
    /\ lastrowid = [EmptyTables.lastrowid EXCEPT !.StudyUnits = 1]
    /\ request = None
    /\ waiting = None
    /\ response = [op |-> "init_db", outcome |-> "ok"]
    /\ seen = {}

NextRace ==
    \/ \E f \in {FormShort(1), FormBlank} : add_test_begin(1, 1, f)
    \/ add_test_insert
    \/ \E t \in TestIds : delete_test(1, t)
    \/ \E t \in TestIds : submit_test_begin(3, t)
    \/ submit_test_questions
    \/ \E a \in RequestSheets : submit_test_grade(a)
    \/ submit_test_write
    \/ thread_switch

SpecRace == InitRace /\ [][NextRace]_vars

(***************************************************************************)
(* SpecForms: the test builder.  Mentor 1 has unit 1, with no test yet,    *)
(* and adds, edits and deletes tests of one multiple choice question, with *)
(* every kind of option list and of correct index.                         *)
(***************************************************************************)
\* the question_i_option_j fields submitted: two options, three options, and
\* three the second of which is blank
OptionLists ==
    { <<<<"a">>, <<"b">>>>, <<<<"a">>, <<"b">>, <<"c">>>>, <<<<"a">>, <<" ">>, <<"c">>>> }

\* the question_i_correct fields submitted; a field not submitted is 0
CorrectIndexes == {-1, 0, 1, 2, 3}

ChoiceForm(opts, correct) ==
    [question_count |-> 1,
     questions |-> <<[text |-> <<"x">>, type |-> "MCQ", options |-> opts,
                      correct |-> correct, answer |-> NoText]>>]

ChoiceForms == { ChoiceForm(opts, c) : opts \in OptionLists, c \in CorrectIndexes }

NextForms ==
    \/ \E f \in ChoiceForms : add_test(1, 1, f)
    \/ \E t \in TestIds, f \in ChoiceForms : edit_test(1, t, f)
    \/ \E t \in TestIds : delete_test(1, t)

SpecForms == InitRace /\ [][NextForms]_vars

(***************************************************************************)
(* SpecRetest: the schedule after a test was changed.  From the tables of  *)
(* SpecSchedule, student 3 submits the tests of unit 1 and opens the       *)
(* dashboard while mentor 1 edits, deletes and adds them again and sets    *)
(* the exam of the unit.                                                   *)
(***************************************************************************)
\* the forms mentor 1 edits with: one short answer, and a blank question
RetestForms == {FormShort(1), FormBlank}

NextRetest ==
    \/ \E t \in TestIds, f \in RetestForms : edit_test(1, t, f)
    \/ \E t \in TestIds : delete_test(1, t)
    \/ add_test(1, 1, FormShort(1))
    \/ set_exam(1, 1, FirstExamDate)
    \/ \E t \in TestIds : submit_test_begin(3, t)
    \/ submit_test_questions
    \/ \E a \in RequestSheets : submit_test_grade(a)
    \/ submit_test_write
    \/ \E now \in Nows : student_dashboard(3, now)

SpecRetest == InitSchedule /\ [][NextRetest]_vars

(***************************************************************************)
(* The schedule a dashboard has just shown.  student_dashboard writes      *)
(* nothing, so in the state it leaves the tables are those it read.        *)
(***************************************************************************)
Shown == response.op = "student_dashboard" /\ response.outcome = "ok"

Schedule == IF Shown THEN response.suggested_schedule ELSE <<>>

ProgressRows(student_id, unit_id) ==
    {p \in StudentProgress : p.student_id = student_id /\ p.unit_id = unit_id}

ExamRows(unit_id) == {e \in Exams : e.unit_id = unit_id}

\* the exam date of the unit, NoText when it has no exam
ExamDateOf(unit_id) ==
    IF ExamRows(unit_id) = {} THEN NoText
    ELSE (CHOOSE e \in ExamRows(unit_id) : TRUE).exam_date

\* the first rule of the ladder that matches the student's progress on the unit
RuleOf(student_id, unit_id) ==
    LET rows == ProgressRows(student_id, unit_id)
    IN  IF \A p \in rows : p.completed = 0 THEN 1
        ELSE IF \A p \in rows : p.test_taken = 0 THEN 2
        ELSE IF \A p \in rows : /\ p.test_score # None
                                /\ p.test_score.num < 70 * p.test_score.den THEN 3
        ELSE 4

RulePriority(rule, exam) ==
    CASE rule = 1 -> IF exam THEN 10 ELSE 5
      [] rule = 2 -> IF exam THEN 9 ELSE 4
      [] rule = 3 -> IF exam THEN 8 ELSE 3
      [] rule = 4 -> 1

RuleReason(rule) ==
    CASE rule = 1 -> "Not started"
      [] rule = 2 -> "Completed, test pending"
      [] rule = 3 -> "Struggled (score: "
      [] rule = 4 -> "Completed"

\* C1: every suggestion of a shown schedule has the priority and the reason
\* of the first matching rule: not completed (or no Progress row) -> "Not
\* started", 10 with an exam else 5; no test taken -> "Completed, test
\* pending", 9 or 4; score < 70 -> "Struggled", 8 or 3; otherwise
\* "Completed", 1.
C1_PriorityLadder ==
    \A i \in 1..Len(Schedule) :
        LET s    == Schedule[i]
            rule == RuleOf(response.user_id, s.unit_id)
        IN  /\ s.priority = RulePriority(rule, ExamRows(s.unit_id) # {})
            /\ Head(s.reason) = RuleReason(rule)

\* a schedule with a struggled unit that has an exam (8) next to a completed
\* unit with no test taken and no exam (4)
C1_Witness ==
    /\ \E i \in 1..Len(Schedule) :
          Schedule[i].priority = 8 /\ ExamRows(Schedule[i].unit_id) # {}
    /\ \E i \in 1..Len(Schedule) :
          Schedule[i].priority = 4 /\ ExamRows(Schedule[i].unit_id) = {}

\* whole days from now until ed, cut towards zero
WholeDays(ed, now) ==
    LET d == ToMinutes(ed) - ToMinutes(now)
    IN  IF d >= 0 THEN d \div 1440 ELSE -((-d) \div 1440)

\* the time the claim gives; with awareFallsBack an exam date carrying a UTC
\* offset counts with the dates that give (now + 1 day) at 09:00
TimeByRule(exam_date, now, awareFallsBack) ==
    LET ed == fromisoformat(ReplaceT(exam_date))
    IN  IF exam_date = NoText \/ ed = ValueError
        THEN StrftimeNine(PlusDelta(now, 1, 0))
        ELSE IF awareFallsBack /\ ed.tz THEN StrftimeNine(PlusDelta(now, 1, 0))
        ELSE IF WholeDays(ed, now) <= 3 THEN StrftimeHour(PlusDelta(now, 0, 2))
        ELSE IF WholeDays(ed, now) <= 7 THEN StrftimeNine(PlusDelta(now, 1, 0))
        ELSE StrftimeNine(PlusDelta(now, 2, 0))

\* C2 as stated: the suggested time is a function of the exam date and now
\* alone: no or unparseable date -> now + 1 day at 09:00; parseable and
\* whole days <= 3 -> now + 2 hours, minutes 00; 4..7 -> now + 1 day at
\* 09:00; more than 7 -> now + 2 days at 09:00.
C2_SuggestedTimeAsClaimed ==
    \A i \in 1..Len(Schedule) :
        Schedule[i].suggested_study_time =
            TimeByRule(ExamDateOf(Schedule[i].unit_id), response.now, FALSE)

\* C2 amended: as stated, but an exam date that carries a UTC offset gives
\* now + 1 day at 09:00 like an unparseable one, however far it is.
C2_SuggestedTime ==
    \A i \in 1..Len(Schedule) :
        Schedule[i].suggested_study_time =
            TimeByRule(ExamDateOf(Schedule[i].unit_id), response.now, TRUE)

\* a schedule with an exam date carrying an offset, more than 7 days ahead,
\* for a unit whose test was taken (now + 1 day at 09:00), next to a unit
\* with no Progress row whose exam is past (now + 2 hours)
C2_Witness ==
    /\ \E i \in 1..Len(Schedule) :
          LET ed == fromisoformat(ReplaceT(ExamDateOf(Schedule[i].unit_id)))
          IN  /\ ed # ValueError
              /\ ed.tz
              /\ WholeDays(ed, response.now) > 7
              /\ Schedule[i].test_taken = 1
              /\ Schedule[i].suggested_study_time =
                     StrftimeNine(PlusDelta(response.now, 1, 0))
    /\ \E i \in 1..Len(Schedule) :
          LET ed == fromisoformat(ReplaceT(ExamDateOf(Schedule[i].unit_id)))
          IN  /\ ed # ValueError
              /\ WholeDays(ed, response.now) < 0
              /\ ProgressRows(response.user_id, Schedule[i].unit_id) = {}
              /\ Schedule[i].suggested_study_time =
                     StrftimeHour(PlusDelta(response.now, 0, 2))

\* the instant a suggested_study_time string denotes, in minutes
Instant(text) == ToMinutes(fromisoformat(ReplaceT(text)))

\* C3: a shown schedule is in descending priority; suggestions of equal
\* priority are in ascending suggested_study_time; and the order of the
\* strings is the order of the instants they denote.
C3_Sorted ==
    /\ \A i \in 1..Len(Schedule), j \in 1..Len(Schedule) :
          i < j =>
            /\ Schedule[i].priority >= Schedule[j].priority
            /\ Schedule[i].priority = Schedule[j].priority =>
                  ~StrLess(Schedule[j].suggested_study_time,
                           Schedule[i].suggested_study_time)
    /\ \A i \in 1..Len(Schedule), j \in 1..Len(Schedule) :
          StrLess(Schedule[i].suggested_study_time, Schedule[j].suggested_study_time)
              <=> Instant(Schedule[i].suggested_study_time)
                      < Instant(Schedule[j].suggested_study_time)

\* two suggestions of equal priority, the earlier one first although its
\* unit comes second in the order of the units query
C3_Witness ==
    /\ Len(Schedule) = 2
    /\ Schedule[1].priority = Schedule[2].priority
    /\ StrLess(Schedule[1].suggested_study_time, Schedule[2].suggested_study_time)
    /\ StrLess(Schedule[2].unit.subject, Schedule[1].unit.subject)

\* C4: a shown schedule has exactly one suggestion for each unit of the
\* student's mentor and none for a unit of another mentor.
C4_OnePerUnit ==
    Shown =>
        /\ \A u \in StudyUnits :
              Cardinality({i \in 1..Len(Schedule) : Schedule[i].unit_id = u.id})
                  = IF response.target # 0 /\ u.mentor_id = response.target THEN 1 ELSE 0
        /\ \A i \in 1..Len(Schedule) : \E u \in StudyUnits : u.id = Schedule[i].unit_id

\* a schedule of two units shown while another mentor's unit has an exam
\* and another student's Progress row
C4_Witness ==
    /\ Len(Schedule) = 2
    /\ \E u \in StudyUnits :
          /\ u.mentor_id # response.target
          /\ ExamRows(u.id) # {}
          /\ \E p \in StudentProgress : p.unit_id = u.id

(***************************************************************************)
(* The steps of a submit_test request                                      *)
(***************************************************************************)
\* the step that grades: request holds the questions read, request' the
\* answers posted and the count
GradeStep ==
    /\ request # None /\ request.pc = "grade"
    /\ request' # None /\ request'.pc = "write"
    /\ waiting' = waiting

\* the state between the grading and the write
Graded == request # None /\ request.pc = "write"

\* the step that writes and answers
WriteStep ==
    request # None /\ request.pc = "write" /\ request' = None /\ waiting' = waiting

MarkedOptions(qid) ==
    {o.id : o \in {x \in Options : x.question_id = qid /\ x.is_correct = 1}}

LowestId(ids) == CHOOSE x \in ids : \A y \in ids : x <= y

Normalized(text) == Lower(Strip(text))

\* the rule for one question; with trimChoice the answer to a
\* MultipleChoice question is trimmed before it is compared
AnsweredRight(q, ans, trimChoice) ==
    IF q.type = "MCQ"
    THEN /\ MarkedOptions(q.id) # {}
         /\ (IF trimChoice THEN Strip(ans) ELSE ans) = Str(LowestId(MarkedOptions(q.id)))
    ELSE Normalized(ans) = Normalized(q.correct_answer)

\* the questions of qs the rule counts; answers for other ids play no part
RightCount(qs, answers, trimChoice) ==
    Cardinality({ i \in 1..Len(qs) :
        AnsweredRight(qs[i],
                      IF qs[i].id \in DOMAIN answers THEN answers[qs[i].id] ELSE <<>>,
                      trimChoice) })

\* C5 as stated: the count of submit_test is the number of the test's
\* questions answered right: a MultipleChoice answer equal to the id of the
\* lowest-id Option marked correct (never right when none is marked), a
\* ShortAnswer answer equal to the stored answer after trimming and case
\* folding; answers for other question ids do not count.
C5_AsClaimed ==
    [][GradeStep =>
          request'.correct = RightCount(request.questions, request'.answers, FALSE)]_vars

\* C5 amended: as stated, the MultipleChoice answer too being trimmed of
\* surrounding blanks before it is compared with the id.
C5_GradingRule ==
    [][GradeStep =>
          request'.correct = RightCount(request.questions, request'.answers, TRUE)]_vars

\* a graded request of two questions, one counted: its MultipleChoice
\* question has lost its Options, its ShortAnswer is answered with blanks and
\* capitals, and answers are posted for questions that are not the test's
C5_Witness ==
    /\ Graded
    /\ request.total = 2 /\ request.correct = 1
    /\ \E qid \in DOMAIN request.answers :
          /\ qid > 2
          /\ \E q \in Questions : q.id = qid
    /\ MarkedOptions(1) = {}
    /\ 1 \in DOMAIN request.answers /\ 2 \in DOMAIN request.answers
    /\ request.answers[2] = <<" ", "A", "B", " ">>

\* C6: the score is correct / total x 100, lies in 0..100, is 0 for a test
\* with no questions, 100 when every question is counted and 0 when none is.
C6_Score ==
    [][GradeStep =>
          LET total   == Len(request.questions)
              correct == request'.correct
              score   == request'.score
          IN  /\ request'.total = total
              /\ correct \in 0..total
              /\ score.den > 0
              /\ total > 0 => score.num * total = correct * 100 * score.den
              /\ total = 0 => score.num = 0
              /\ 0 <= score.num /\ score.num <= 100 * score.den
              /\ (total > 0 /\ correct = total) => score.num = 100 * score.den
              /\ correct = 0 => score.num = 0]_vars

\* a test graded after its questions were deleted: no question, score 0
C6_Witness ==
    /\ Graded
    /\ request.total = 0
    /\ request.score = Fraction(0, 1)

C8_ProgressAfterSubmit ==
    [][(WriteStep /\ response'.outcome = "ok") =>
          \E p \in StudentProgress' :
              /\ p.student_id = request.user_id /\ p.unit_id = request.unit_id
              /\ p.test_taken = 1
              /\ p.test_score = request.score
              /\ p.difficulty_level = request.difficulty_level
              /\ ~ProgressExists(request.user_id, request.unit_id) => p.completed = 1]_vars

AtMostOneRow ==
    \A p \in StudentProgress, r \in StudentProgress :
        (p.student_id = r.student_id /\ p.unit_id = r.unit_id) => p = r

\* C9: there is never more than one Progress row for a student and a unit,
\* and when a submit_test has answered with success every row of its student
\* and unit holds the score of that submission.
C9_OneRowLatestScore ==
    [][/\ AtMostOneRow'
       /\ (WriteStep /\ response'.outcome = "ok") =>
             \A p \in StudentProgress' :
                 (p.student_id = request.user_id /\ p.unit_id = request.unit_id)
                     => p.test_score = request.score]_vars

\* a submit_test has just updated the row of student 3 and unit 1, which
\* holds its score of 100, next to the row of student 4
C9_Witness ==
    /\ response.op = "submit_test" /\ response.outcome = "ok"
    /\ response.existing
    /\ response.score = Fraction(100, 1)
    /\ Cardinality(StudentProgress) = 2
    /\ \E p \in StudentProgress :
          /\ p.student_id = response.user_id /\ p.unit_id = response.unit_id
          /\ p.test_score = response.score

\* the test exists and its unit belongs to the mentor the user is linked to
OwnedTest(user_id, test_id) ==
    \E t \in Tests, u \in StudyUnits, s \in Users :
        /\ s.id = user_id /\ s.mentor_id # 0
        /\ t.id = test_id /\ u.id = t.unit_id /\ u.mentor_id = s.mentor_id

\* C10: a submit_test of a student for a test that does not exist, or whose
\* unit is not of the student's mentor, answers not found, goes no further
\* and leaves StudentProgress as it is; and no request goes on to grading
\* unless the test's unit is of the student's mentor.
C10_NotFound ==
    [][/\ \A u \in Students, t \in 1..(MaxTests + 1) :
             (submit_test_begin(u, t) /\ ~OwnedTest(u, t)) =>
                 /\ response' = Answer("submit_test", u, t, "not_found")
                 /\ request' = None
                 /\ StudentProgress' = StudentProgress
       /\ (request = None /\ request' # None) =>
             OwnedTest(request'.user_id, request'.test_id)]_vars

\* the student with no mentor has asked for an existing test, and was
\* answered not found
C10_Witness ==
    /\ response = Answer("submit_test", 5, 1, "not_found")
    /\ \E t \in Tests : t.id = 1
    /\ StudentProgress # {}

\* C11: every submit_test of a student answers without error, and leaves
\* exactly one Progress row for the student and the unit, holding the score
\* and the difficulty it computed, also when another submit_test of the same
\* student for the same test is in flight.
C11_AtomicUpsert ==
    [][WriteStep =>
          /\ response'.outcome = "ok"
          /\ \E p \in StudentProgress' :
                /\ p.test_score = request.score
                /\ p.difficulty_level = request.difficulty_level
                /\ {r \in StudentProgress' : /\ r.student_id = request.user_id
                                              /\ r.unit_id = request.unit_id} = {p}]_vars

\* the threshold classification of a score
ClassOf(score) ==
    IF score.num < 50 * score.den THEN "hard"
    ELSE IF score.num < 70 * score.den THEN "medium"
    ELSE "easy"

\* C12: every Progress row with test_taken = 1 has a test_score, and its
\* difficulty_level is the threshold classification of that score; every row
\* with test_taken = 0 has neither a test_score nor a difficulty_level.
C12_DifficultyOfScore ==
    \A p \in StudentProgress :
        IF p.test_taken = 1
        THEN p.test_score # None /\ p.difficulty_level = ClassOf(p.test_score)
        ELSE p.test_score = None /\ p.difficulty_level = NULL

\* a submit_test has just updated a row that was there, to a score of 50 and
\* "medium", next to a row that was only marked complete
C12_Witness ==
    /\ response.op = "submit_test" /\ response.outcome = "ok"
    /\ response.existing
    /\ \E p \in StudentProgress :
          /\ p.student_id = response.user_id /\ p.unit_id = response.unit_id
          /\ p.test_taken = 1
          /\ p.test_score = Fraction(50, 1) /\ p.difficulty_level = "medium"
    /\ \E p \in StudentProgress : p.test_taken = 0 /\ p.difficulty_level = NULL

\* C13: every Progress row refers to an existing unit, whose mentor is the
\* mentor its student is linked to.
C13_RowsOfOwnMentor ==
    \A p \in StudentProgress :
        \E u \in StudyUnits, s \in Users :
            /\ u.id = p.unit_id /\ s.id = p.student_id
            /\ s.mentor_id # 0 /\ u.mentor_id = s.mentor_id

\* C14: no unit has two Tests.
C14_OneTestPerUnit ==
    \A t \in Tests, o \in Tests : t.unit_id = o.unit_id => t = o

\* the mentor who owns the unit
Owns(user_id, unit_id) ==
    /\ \E s \in Users : s.id = user_id /\ s.role = "mentor"
    /\ \E u \in StudyUnits : u.id = unit_id /\ u.mentor_id = user_id

\* the records that refer to the unit, directly or through its test
UnitRecords(unit_id) ==
    LET tests == {t \in Tests : t.unit_id = unit_id}
        questions == {q \in Questions : \E t \in tests : q.test_id = t.id}
    IN  [units |-> {u \in StudyUnits : u.id = unit_id},
         exams |-> {e \in Exams : e.unit_id = unit_id},
         tests |-> tests,
         questions |-> questions,
         options |-> {o \in Options : \E q \in questions : o.question_id = q.id},
         progress |-> {p \in StudentProgress : p.unit_id = unit_id},
         schedule |-> {r \in StudySchedule : r.unit_id = unit_id}]

NoRecords ==
    [units |-> {}, exams |-> {}, tests |-> {}, questions |-> {}, options |-> {},
     progress |-> {}, schedule |-> {}]

Tables ==
    <<StudyUnits, Exams, Tests, Questions, Options, StudentProgress, StudySchedule>>

\* C15: a delete_unit by the mentor who owns the unit leaves no record of
\* the unit, none of its test's Questions and Options either, and leaves the
\* records of every other unit as they were; a delete_unit by anyone else
\* leaves every table as it was.
C15_Cascade ==
    [][\A user_id \in 1..5, unit_id \in 1..3 :
          delete_unit(user_id, unit_id) =>
              IF Owns(user_id, unit_id)
              THEN /\ UnitRecords(unit_id)' = NoRecords
                   /\ Questions' \cap UnitRecords(unit_id).questions = {}
                   /\ Options' \cap UnitRecords(unit_id).options = {}
                   /\ \A other \in (1..3) \ {unit_id} :
                         UnitRecords(other)' = UnitRecords(other)
              ELSE Tables' = Tables]_vars

\* mentor 1 has just deleted unit 1, which had a test: test 2, of unit 3, is
\* left with its two questions, and unit 2 with its exam, its Progress row
\* and its study session
C15_Witness ==
    /\ response = Flash("delete_unit", 1, "ok")
    /\ {u.id : u \in StudyUnits} = {2, 3}
    /\ Tests = {[id |-> 2, mentor_id |-> 2, unit_id |-> 3]}
    /\ Cardinality(Questions) = 2 /\ Cardinality(Options) = 2
    /\ UnitRecords(2).exams # {}
    /\ UnitRecords(2).progress # {}
    /\ UnitRecords(2).schedule # {}

\* C16: a set_exam or delete_exam by anyone but the mentor who owns the unit
\* leaves Exams as it was, and every unit has at most one Exam, whose
\* mentor_id is the unit's mentor.
C16_ExamsOfOwner ==
    [][/\ \A r \in CascadeExamRequests :
             (~Owns(r[1], r[2]) /\ response'.op = "set_exam"
                  /\ set_exam(r[1], r[2], r[3])) => Exams' = Exams
       /\ \A user_id \in 1..5, unit_id \in 1..3 :
             (~Owns(user_id, unit_id) /\ response'.op = "delete_exam"
                  /\ delete_exam(user_id, unit_id)) => Exams' = Exams
       /\ \A u \in StudyUnits' :
             /\ Cardinality({e \in Exams' : e.unit_id = u.id}) <= 1
             /\ \A e \in Exams' : e.unit_id = u.id => e.mentor_id = u.mentor_id]_vars

\* mentor 2 has just been refused on a unit of mentor 1, whose exam date
\* mentor 1 had set and then changed, while unit 3 has mentor 2's exam
C16_Witness ==
    /\ response = Flash("set_exam", 2, "not_found")
    /\ [unit_id |-> 1, mentor_id |-> 1, exam_date |-> LastExamDate] \in Exams
    /\ [unit_id |-> 3, mentor_id |-> 2, exam_date |-> FirstExamDate] \in Exams
    /\ Cardinality(Exams) = 2

\* C18: the list a generate_adaptive_schedule call returns is the list
\* computed from the tables as they were at one instant of the call.
C18_Snapshot ==
    [][(request # None /\ request.pc = "exams" /\ request' = None) =>
          \E s \in seen :
              response'.suggested_schedule =
                  ScheduleFrom(s.units, s.progress, s.exams, response'.now)]_vars

HasValidQuestion(form) ==
    \E i \in 1..Len(form.questions) :
        /\ i <= form.question_count
        /\ Strip(form.questions[i].text) # <<>>
        /\ \/ form.questions[i].type = "ShortAnswer"
           \/ /\ form.questions[i].options # <<>>
              /\ Strip(form.questions[i].options[1]) # <<>>

\* C20: every Test has at least one Question, and an add_test or edit_test
\* whose form holds no valid question changes no table.
C20_NoEmptyTest ==
    [][/\ \A t \in Tests' : \E q \in Questions' : q.test_id = t.id
       /\ \A f \in Forms :
             (/\ ~HasValidQuestion(f)
              /\ response'.op \in {"add_test", "edit_test"}
              /\ \E u \in {1, 3}, i \in TestIds :
                    add_test(u, i, f) \/ edit_test(u, i, f))
                 => Tables' = Tables]_vars

\* mentor 1 has just been refused a form with a blank question, after test
\* 1 was deleted and test 2 added with one question
C20_Witness ==
    /\ response = Flash("edit_test", 1, "invalid")
    /\ Tests = {[id |-> 2, mentor_id |-> 1, unit_id |-> 1]}
    /\ Cardinality(Questions) = 1

\* whether the unit has an Exam row whose date fromisoformat refuses or gives
\* as an aware datetime, which cannot be subtracted from now
Unparsed(unit_id) ==
    /\ ExamRows(unit_id) # {}
    /\ LET ed == fromisoformat(ReplaceT(ExamDateOf(unit_id)))
       IN  IF ed = ValueError THEN TRUE ELSE ed.tz

\* the study time and the reason suffix of a suggestion are those of a unit
\* whose exam date failed to parse
FallsBack(s) ==
    /\ s.suggested_study_time = StrftimeNine(PlusDelta(response.now, 1, 0))
    /\ Len(s.reason) >= 3
    /\ s.reason[Len(s.reason) - 1] = " | Exam: "
    /\ s.reason[Len(s.reason)] = SubSeq(ExamDateOf(s.unit_id), 1, 10)

\* C21 as claimed: a suggestion for a unit whose exam date cannot be parsed or
\* compared has the study time (now + 1 day) at 09:00, the ' | Exam: '
\* suffix, and priority 10, 9 or 8.
C21_AsClaimed ==
    \A i \in 1..Len(Schedule) :
        Unparsed(Schedule[i].unit_id) =>
            FallsBack(Schedule[i]) /\ Schedule[i].priority \in {10, 9, 8}

\* C21: a suggestion for a unit whose exam date cannot be parsed or compared
\* has the study time (now + 1 day) at 09:00, the ' | Exam: ' suffix, and the
\* priority its rule gives to a unit with an exam: 10, 9 or 8, or 1 under the
\* "Completed" rule.
C21_ParseFailureOnlyTime ==
    \A i \in 1..Len(Schedule) :
        Unparsed(Schedule[i].unit_id) =>
            /\ FallsBack(Schedule[i])
            /\ Schedule[i].priority =
                  RulePriority(RuleOf(response.user_id, Schedule[i].unit_id), TRUE)

\* a shown schedule with a struggled unit whose exam date carries a UTC
\* offset: priority 8, the suffix, and the next morning
C21_Witness ==
    \E i \in 1..Len(Schedule) :
        /\ Unparsed(Schedule[i].unit_id)
        /\ Schedule[i].priority = 8
        /\ FallsBack(Schedule[i])

\* the instant of the unit's exam in minutes, -1 when its date gives no
\* naive datetime
ExamInstant(unit_id) ==
    LET ed == fromisoformat(ReplaceT(ExamDateOf(unit_id)))
    IN  IF ExamRows(unit_id) = {} \/ ed = ValueError THEN -1
        ELSE IF ed.tz THEN -1
        ELSE ToMinutes(ed)

\* C22: in a shown schedule, of two suggestions of equal priority whose
\* units have exams still to come, the one with the later exam is not placed
\* before the one with the nearer exam.
C22_ByExamProximity ==
    \A i \in 1..Len(Schedule), j \in 1..Len(Schedule) :
        LET near  == ExamInstant(Schedule[j].unit_id)
            later == ExamInstant(Schedule[i].unit_id)
        IN  (/\ i < j
             /\ Schedule[i].priority = Schedule[j].priority
             /\ near >= 0 /\ later >= 0
             /\ ToMinutes(response.now) <= near)
                => ~(near < later)

\* the Options rows of a question
OptionsOf(qid) == {o \in Options : o.question_id = qid}

\* the options of the form's question before the first blank one
SubmittedOptions(form) ==
    LET opts == form.questions[1].options
    IN  IF \E j \in 1..Len(opts) : Strip(opts[j]) = <<>>
        THEN (CHOOSE j \in 1..Len(opts) :
                 /\ Strip(opts[j]) = <<>>
                 /\ \A k \in 1..(j - 1) : Strip(opts[k]) # <<>>) - 1
        ELSE Len(opts)

\* C23: after every add_test, edit_test and delete_test each multiple choice
\* question stored has at least one Option and exactly one with is_correct =
\* 1; and when the form's correct index is negative or not less than the
\* number of options, the Option marked in the question just saved is its
\* first.
C23_OneCorrectOption ==
    [][/\ \A q \in Questions' :
             q.type = "MCQ" =>
                 Cardinality({o \in OptionsOf(q.id)' : o.is_correct = 1}) = 1
       /\ \A f \in ChoiceForms :
             (/\ response'.outcome = "ok"
              /\ response'.op \in {"add_test", "edit_test"}
              /\ \/ f.questions[1].correct < 0
                 \/ f.questions[1].correct >= SubmittedOptions(f)
              /\ \E t \in TestIds : add_test(1, 1, f) \/ edit_test(1, t, f))
                 => \A q \in Questions' \ Questions :
                        \A o \in OptionsOf(q.id)' :
                            o.is_correct = 1 <=>
                                \A other \in OptionsOf(q.id)' : o.id <= other.id]_vars

\* a test edited with the form whose second option is blank: its question
\* has the one option before the blank, and that option is marked, whatever
\* index was submitted
C23_Witness ==
    /\ response = Flash("edit_test", 1, "ok")
    /\ lastrowid.Questions >= 2
    /\ \E q \in Questions :
          /\ q.type = "MCQ"
          /\ Cardinality(OptionsOf(q.id)) = 1
          /\ \A o \in OptionsOf(q.id) : o.is_correct = 1

\* C24: every Progress row has completed = 1, so a row with test_taken = 1
\* has it too, and in a shown schedule the reason of a unit is "Not started"
\* exactly when the student has no Progress row for it.
C24_AlwaysCompleted ==
    /\ \A p \in StudentProgress :
          p.completed = 1 /\ (p.test_taken = 1 => p.completed = 1)
    /\ \A i \in 1..Len(Schedule) :
          Head(Schedule[i].reason) = "Not started"
              <=> ProgressRows(response.user_id, Schedule[i].unit_id) = {}

\* a shown schedule with a unit not started, which has no row, next to the
\* unit whose test student 3 submitted without marking it complete before
C24_Witness ==
    /\ Len(Schedule) = 2
    /\ \E i \in 1..2 :
          /\ Head(Schedule[i].reason) = "Not started"
          /\ ProgressRows(3, Schedule[i].unit_id) = {}
    /\ \E i \in 1..2 :
          /\ Schedule[i].test_taken = 1
          /\ Schedule[i].completed = 1
          /\ ProgressRows(3, Schedule[i].unit_id) # {}

\* whether the Progress row is that of the student and the unit
RowOf(p, student_id, unit_id) == p.student_id = student_id /\ p.unit_id = unit_id

\* the step leaves the Progress rows of every other student and unit as they
\* are, and adds and removes none of them
OthersUnchanged(student_id, unit_id) ==
    {p \in StudentProgress' : ~RowOf(p, student_id, unit_id)}
        = {p \in StudentProgress : ~RowOf(p, student_id, unit_id)}

\* C25: mark_unit_complete leaves test_taken, test_score and difficulty_level
\* of an existing row of its student and unit unchanged; the write of
\* submit_test leaves completed of an existing row unchanged; and both leave
\* the rows of every other student and unit unchanged.
C25_WritersFrame ==
    [][/\ \A u \in {1, 3, 4}, i \in UnitIds :
             (response'.op = "mark_unit_complete" /\ mark_unit_complete(u, i)) =>
                 /\ OthersUnchanged(u, i)
                 /\ \A p \in StudentProgress :
                       RowOf(p, u, i) =>
                           StudentProgress' \ StudentProgress
                               \subseteq {[p EXCEPT !.completed = c] : c \in {0, 1}}
                 /\ \A p \in StudentProgress :
                       RowOf(p, u, i) =>
                           \E r \in StudentProgress' :
                               /\ RowOf(r, u, i)
                               /\ r.test_taken = p.test_taken
                               /\ r.test_score = p.test_score
                               /\ r.difficulty_level = p.difficulty_level
       /\ WriteStep =>
             /\ OthersUnchanged(request.user_id, request.unit_id)
             /\ \A p \in StudentProgress :
                   RowOf(p, request.user_id, request.unit_id) =>
                       \A r \in StudentProgress' :
                           RowOf(r, request.user_id, request.unit_id)
                               => r.completed = p.completed]_vars

\* student 3 has marked unit 1 complete after the test of the unit was
\* graded: the row keeps the score while student 4 has a row of their own
C25_Witness ==
    /\ response.op = "mark_unit_complete"
    /\ response.outcome = "ok"
    /\ response.user_id = 3
    /\ \E p \in StudentProgress :
          RowOf(p, 3, 1) /\ p.test_taken = 1 /\ p.completed = 1
    /\ \E p \in StudentProgress : p.student_id = 4

\* C26: edit_test and delete_test leave StudentProgress as it is, and a shown
\* schedule ranks a unit whose test the student has taken by the score of
\* the row, "Struggled" below 70 and "Completed" otherwise, whether or not
\* the test still exists.
C26_ProgressKept ==
    [][/\ \A t \in TestIds :
             (/\ response'.op \in {"edit_test", "delete_test"}
              /\ (\E f \in RetestForms : edit_test(1, t, f)) \/ delete_test(1, t))
                 => StudentProgress' = StudentProgress
       /\ \A i \in 1..Len(Schedule') :
             \A p \in StudentProgress' :
                 (RowOf(p, response'.user_id, Schedule'[i].unit_id) /\ p.test_taken = 1)
                     => /\ Schedule'[i].test_taken = 1
                        /\ Head(Schedule'[i].reason) =
                              IF p.test_score.num < 70 * p.test_score.den
                              THEN "Struggled (score: " ELSE "Completed"]_vars

\* a schedule shown after the only test was deleted: unit 1 is still
\* "Struggled", with the score of the submission, and has an exam
C26_Witness ==
    /\ Shown
    /\ Tests = {}
    /\ lastrowid.Questions >= 2
    /\ \E i \in 1..Len(Schedule) :
          /\ Schedule[i].unit_id = 1
          /\ Schedule[i].priority = 8
          /\ \E p \in StudentProgress : RowOf(p, 3, 1) /\ p.test_taken = 1

====
